---- MODULE Spec2Model ----
(***************************************************************************)
(* Pulse-js reactive core: Sources, Guards, the tracking context and the   *)
(* composition helpers.  A handler (Source.set, a promise continuation,    *)
(* _hydrate, _evaluate) is one action; the synchronous depth-first         *)
(* propagation it triggers is computed by the recursive operators          *)
(* evaluate / notifyList, which thread the whole heap ("world") through    *)
(* the calls exactly in the order the code makes them.  Signals and        *)
(* batch(), pulse objects, effect() and the Registry are modelled beside   *)
(* them; a program (cfg) says which of these a run uses.                   *)
(*                                                                         *)
(* Not modelled: updatedAt (a Date.now() timestamp no code reads back).    *)
(***************************************************************************)
EXTENDS Integers, Sequences, FiniteSets, TLC

VARIABLES cfg, sources, guards, guardStack, inflight, exc, trace, op,
          batchQueue, batchDepth, heap, pulses, registry, fx

vars == <<cfg, sources, guards, guardStack, inflight, exc, trace, op,
          batchQueue, batchDepth, heap, pulses, registry, fx>>

(***************************************************************************)
(* Bounds                                                                  *)
(***************************************************************************)
\* Source values are the numbers 0..MaxVal.
MaxVal == 3
\* Handlers are started only while every Guard's run-id is below MaxId.
MaxId == 4
\* batch() calls nest at most MaxDepth deep.
MaxDepth == 2
\* register is called only while the Registry's generation is below MaxGen.
MaxGen == 3
\* The dispose function of an effect is called at most MaxDispose times.
MaxDispose == 2
\* The call stack of the engine holds at most MaxStack nested evaluate()
\* calls; one more throws a RangeError.
MaxStack == 12

(***************************************************************************)
(* JavaScript values, failure reasons and thrown errors                    *)
(***************************************************************************)
Num(k) == [t |-> "num", n |-> k]
VTrue == [t |-> "bool", n |-> 1]
VFalse == [t |-> "bool", n |-> 0]
VUndef == [t |-> "undef", n |-> 0]

Bool(b) == IF b THEN VTrue ELSE VFalse

\* JS truthiness of a value
Truthy(v) == (v.t = "bool" /\ v.n = 1) \/ (v.t = "num" /\ v.n # 0)

None == "none"

\* A GuardReason {code, message, meta, toString}; ts says whether the object
\* carries its own toString (returning the message).  NoReason stands for
\* undefined.
NoReason == [code |-> "", message |-> "", meta |-> "", ts |-> FALSE]

Reason(code, message, meta) ==
    [code |-> code, message |-> message, meta |-> meta, ts |-> TRUE]

\* A thrown value.  kind "Error": an Error object (code/meta "" when it carries
\* none); kind "pulseFail": the Error thrown by guardFail, whose _reason is
\* {code, message, meta}; kind "nullish": throw null / throw undefined.
NoErr == [kind |-> "none", code |-> "", message |-> "", meta |-> ""]

Err(kind, code, message, meta) ==
    [kind |-> kind, code |-> code, message |-> message, meta |-> meta]

\* guardFail(reason) with a string reason
guardFail(reason) == Err("pulseFail", "GUARD_FAIL", reason, "")

(***************************************************************************)
(* Insertion-ordered sets (a JS Set iterates in insertion order)           *)
(***************************************************************************)
Has(seq, x) == \E i \in 1..Len(seq) : seq[i] = x

Add(seq, x) == IF Has(seq, x) THEN seq ELSE Append(seq, x)

Range(seq) == {seq[i] : i \in 1..Len(seq)}

(***************************************************************************)
(* The world: the heap the handlers work on                                *)
(*   sources[s] = [value, dependents]                                      *)
(*   guards[g]  = [status, value, reason, lastReason, evaluationId,        *)
(*                 dependents, currentDeps, lastDeps] + ghost fields       *)
(*                 execs (evaluator invocations), lastOut / lastRet (how   *)
(*                 the most recently started run ended and what it         *)
(*                 returned), commitRun (execs of the run that committed   *)
(*                 the current state, 0 = none)                            *)
(*   guardStack = the evaluation stack of tracking.ts                      *)
(*   inflight   = promises returned by evaluators, not yet settled         *)
(*   exc        = the exception propagating out of the current call        *)
(*   trace      = ghost log of the calls made by the current handler       *)
(*   heap[k]    = the plain object number k, a function from property      *)
(*                names to values (a number, or Ref(j) for object j)       *)
(*   pulses[p]  = the pulse proxy reached by the path p: [target,          *)
(*                signals, dependents, nestedCache]; target 0 while the    *)
(*                proxy has not been created                               *)
(*   depth      = the number of evaluate() calls on the call stack         *)
(***************************************************************************)
\* let batchQueue: Set<() => void> | null = null
Null == <<"null">>

World(c, s, g, st, inf, e, tr) ==
    [cfg |-> c, sources |-> s, guards |-> g, guardStack |-> st,
     inflight |-> inf, exc |-> e, trace |-> tr,
     batchQueue |-> Null, batchDepth |-> 0,
     heap |-> <<>>, pulses |-> <<>>, depth |-> 0]

\* a logged call: e \in {"sub", "gsub", "eval", "notify"}, the unit, the value
\* handed over (or read back) and the Guard status at the call
Ev(e, u, v, st) == [e |-> e, u |-> u, v |-> v, st |-> st]

Log(w, e, u, v, st) == [w EXCEPT !.trace = Append(@, Ev(e, u, v, st))]

\* GuardState as read by state(): the fields of the state object
StateOf(gr) == [status |-> gr.status, value |-> gr.value,
                reason |-> gr.reason, lastReason |-> gr.lastReason]

(***************************************************************************)
(* tracking.ts                                                             *)
(***************************************************************************)
getCurrentGuard(w) ==
    IF w.guardStack = <<>> THEN None ELSE w.guardStack[Len(w.guardStack)]

\* the membership test runInContext makes before pushing
OnStack(w, g) == Has(w.guardStack, g)

Push(w, g) == [w EXCEPT !.guardStack = Append(@, g)]

Pop(w) == [w EXCEPT !.guardStack = SubSeq(@, 1, Len(@) - 1)]

GuardName(c, g) == IF g \in c.named THEN g ELSE ""

\* (guard as any)._name of the GuardNode handed to runInContext: the node
\* is { addDependency, notify }; the name is assigned to the Guard function
\* g (g._name = name), never to the node
NodeName(c, g) == ""

CyclicMessage(c, g) ==
    "Cyclic guard dependency detected: "
        \o (IF NodeName(c, g) # "" THEN NodeName(c, g) ELSE "unnamed guard")

CyclicError(c, g) == Err("Error", "", CyclicMessage(c, g), "")

(***************************************************************************)
(* source.ts: reading a Source                                             *)
(***************************************************************************)
\* s(): registers the active guard, both directions
SourceTrack(w, s) ==
    LET a == getCurrentGuard(w) IN
    IF a # None
      THEN [w EXCEPT !.sources[s].dependents = Add(@, a),
                     !.guards[a].currentDeps = Add(@, s)]
      ELSE w

SourceValue(w, s) == w.sources[s].value

\* options.equals || ((a, b) => a === b); the custom equality of the model's
\* inputs is (a, b) => a % 2 === b % 2
Equals(kind, a, b) ==
    IF kind = "strict" THEN a = b
    ELSE a.t = b.t /\ (a.n % 2) = (b.n % 2)

(***************************************************************************)
(* guard.ts: reading a Guard                                               *)
(***************************************************************************)
\* track(): activeGuard && activeGuard !== node
track(w, g) ==
    LET a == getCurrentGuard(w) IN
    IF a # None /\ a # g
      THEN [w EXCEPT !.guards[g].dependents = Add(@, a),
                     !.guards[a].currentDeps = Add(@, g)]
      ELSE w

\* g(): state.status === 'ok' ? state.value : undefined
GuardValue(w, g) ==
    IF w.guards[g].status = "ok" THEN w.guards[g].value ELSE VUndef

GuardOk(w, g) == w.guards[g].status = "ok"

GuardFails(w, g) == w.guards[g].status = "fail"

GuardPending(w, g) == w.guards[g].status = "pending"

\* g.reason(): state.reason || state.lastReason
GuardReason(w, g) ==
    IF w.guards[g].reason # NoReason THEN w.guards[g].reason
    ELSE w.guards[g].lastReason

\* reason?.toString() || dflt : the message when the reason carries its own
\* toString, Object.prototype.toString otherwise
ReasonText(r, dflt) ==
    IF r = NoReason THEN dflt
    ELSE IF ~r.ts THEN "[object Object]"
    ELSE IF r.message = "" THEN dflt
    ELSE r.message

(***************************************************************************)
(* Evaluators: the functions handed to guard().  An evaluator is           *)
(*   [kind, async, deps, codes]                                            *)
(* and running it gives the world after its reads and its outcome,         *)
(*   [t |-> "ret", v |-> value]  or  [t |-> "throw", err |-> thrown].      *)
(***************************************************************************)
Ret(v) == [t |-> "ret", v |-> v, err |-> NoErr]

Throw(e) == [t |-> "throw", v |-> VUndef, err |-> e]

IsSource(w, u) == u \in DOMAIN w.sources

\* u() for a Source or a Guard u
ReadTrack(w, u) == IF IsSource(w, u) THEN SourceTrack(w, u) ELSE track(w, u)

ReadValue(w, u) == IF IsSource(w, u) THEN SourceValue(w, u) ELSE GuardValue(w, u)

\* () => table[s() % table.length] where an entry returns true, false,
\* undefined or the value read, throws new Error('boom') or calls guardFail('X')
TableOutcome(code, v) ==
    CASE code = "true" -> Ret(VTrue)
      [] code = "false" -> Ret(VFalse)
      [] code = "undef" -> Ret(VUndef)
      [] code = "val" -> Ret(v)
      [] code = "throw" -> Throw(Err("Error", "", "boom", ""))
      [] code = "fail" -> Throw(guardFail("X"))
      [] code = "null" -> Throw(Err("nullish", "", "", ""))
      [] code = "coded" -> Throw(Err("Error", "E42", "coded", ""))
      [] OTHER -> Throw(Err("Error", "ERR_AUTH", "structured", "guest"))

BodyTable(w, e) ==
    LET s == e.deps[1]
        w1 == SourceTrack(w, s)
        v == SourceValue(w1, s)
    IN [w |-> w1, out |-> TableOutcome(e.codes[(v.n % Len(e.codes)) + 1], v)]

\* () => a()
BodyId(w, e) ==
    LET w1 == ReadTrack(w, e.deps[1])
    IN [w |-> w1, out |-> Ret(ReadValue(w1, e.deps[1]))]

\* () => a() && b()   (b is read only when a() is truthy)
BodyAnd(w, e) ==
    LET w1 == ReadTrack(w, e.deps[1])
        a == ReadValue(w1, e.deps[1])
        w2 == ReadTrack(w1, e.deps[2])
    IN IF Truthy(a) THEN [w |-> w2, out |-> Ret(ReadValue(w2, e.deps[2]))]
       ELSE [w |-> w1, out |-> Ret(a)]

\* () => { if (toggle()) return !b(); return true }
BodyCyc(w, e) ==
    LET w1 == ReadTrack(w, e.deps[1])
        w2 == ReadTrack(w1, e.deps[2])
    IN IF Truthy(ReadValue(w1, e.deps[1]))
         THEN [w |-> w2, out |-> Ret(Bool(~Truthy(ReadValue(w2, e.deps[2]))))]
         ELSE [w |-> w1, out |-> Ret(VTrue)]

\* () => { if (toggle()) { b(); throw new Error('boom') } return true }
BodyCycThrow(w, e) ==
    LET w1 == ReadTrack(w, e.deps[1])
        w2 == ReadTrack(w1, e.deps[2])
    IN IF Truthy(ReadValue(w1, e.deps[1]))
         THEN [w |-> w2, out |-> Throw(Err("Error", "", "boom", ""))]
         ELSE [w |-> w1, out |-> Ret(VTrue)]

\* the for loop of guardAll: every member's ok() is called (and so tracked)
RECURSIVE TrackAll(_, _)
TrackAll(w, gs) ==
    IF gs = <<>> THEN w ELSE TrackAll(track(w, Head(gs)), Tail(gs))

\* (mutant) a loop that looks at the first member only
FirstFailHead(w, gs) == IF GuardOk(w, gs[1]) THEN None ELSE gs[1]

\* the first member, in iteration order, whose ok() is false (None if none)
FirstFail(w, gs) ==
    IF \A i \in 1..Len(gs) : GuardOk(w, gs[i]) THEN None
    ELSE gs[CHOOSE i \in 1..Len(gs) :
                /\ ~GuardOk(w, gs[i])
                /\ \A j \in 1..(i - 1) : GuardOk(w, gs[j])]

\* the evaluator of guardAll(guards)
BodyAll(w, e) ==
    LET w1 == TrackAll(w, e.deps)
        ff == FirstFail(w1, e.deps)
    IN IF ff = None THEN [w |-> w1, out |-> Ret(VTrue)]
       ELSE LET w2 == track(w1, ff)
                message == ReasonText(GuardReason(w2, ff), "condition failed")
            IN [w |-> w2, out |-> Throw(Err("Error", "", message, ""))]

\* allFails.join(' and ')
RECURSIVE JoinAnd(_)
JoinAnd(msgs) ==
    IF Len(msgs) = 1 THEN msgs[1]
    ELSE msgs[1] \o " and " \o JoinAnd(Tail(msgs))

\* the for loop of guardAny: the first ok member returns true; a member that
\* is not ok adds reason()'s text (or 'failed') to allFails
RECURSIVE AnyLoop(_, _, _)
AnyLoop(w, gs, allFails) ==
    IF gs = <<>>
      THEN [w |-> w,
            out |-> Throw(Err("Error", "",
                              IF allFails = <<>> THEN "no conditions met"
                              ELSE JoinAnd(allFails), ""))]
    ELSE LET w1 == track(w, Head(gs)) IN
         IF GuardOk(w1, Head(gs)) THEN [w |-> w1, out |-> Ret(VTrue)]
         ELSE AnyLoop(w1, Tail(gs),
                      Append(allFails,
                             ReasonText(GuardReason(w1, Head(gs)), "failed")))

\* the evaluator of guardAny(guards)
BodyAny(w, e) == AnyLoop(w, e.deps, <<>>)

\* (mutant) a negation that returns the target's verdict unchanged
BodyNotSame(w, e) ==
    LET w1 == ReadTrack(w, e.deps[1]) IN
    IF IsSource(w, e.deps[1])
      THEN [w |-> w1, out |-> Ret(Bool(Truthy(SourceValue(w1, e.deps[1]))))]
      ELSE [w |-> w1, out |-> Ret(Bool(GuardOk(w1, e.deps[1])))]

\* the evaluator of guardNot(target): !target.ok() for a Guard, !target()
\* for any other callable (here a Source)
BodyNot(w, e) ==
    LET w1 == ReadTrack(w, e.deps[1]) IN
    IF IsSource(w, e.deps[1])
      THEN [w |-> w1, out |-> Ret(Bool(~Truthy(SourceValue(w1, e.deps[1]))))]
      ELSE [w |-> w1, out |-> Ret(Bool(~GuardOk(w1, e.deps[1])))]

\* the evaluator of guardNot(() => u()): the target is a plain function
BodyNotFn(w, e) ==
    LET w1 == ReadTrack(w, e.deps[1])
    IN [w |-> w1, out |-> Ret(Bool(~Truthy(ReadValue(w1, e.deps[1]))))]

(***************************************************************************)
(* pulse.ts: the get trap of a pulse proxy.  The Signal of property k of   *)
(* the proxy at path p is sources[p # k].                                  *)
(***************************************************************************)
Ref(k) == [t |-> "obj", n |-> k]

SignalOf(path, prop) == path \o "#" \o prop

ChildPath(path, prop) == path \o "." \o prop

\* pulse(target, ...): the closure state of a new proxy
NewPulse(target) ==
    [target |-> target, signals |-> {}, dependents |-> <<>>, nestedCache |-> {}]

\* createSignal(initialValue)
createSignal(initialValue) == [value |-> initialValue, dependents |-> <<>>]

\* getSignal(key): created on first use from the target's property
getSignal(w, path, prop) ==
    IF prop \in w.pulses[path].signals THEN w
    ELSE [w EXCEPT !.pulses[path].signals = @ \cup {prop},
                   !.sources[SignalOf(path, prop)] =
                       createSignal(w.heap[w.pulses[path].target][prop])]

\* trackAccess(): registers the active guard on the proxy, both directions
trackAccess(w, path) ==
    LET a == getCurrentGuard(w) IN
    IF a # None
      THEN [w EXCEPT !.pulses[path].dependents = Add(@, a),
                     !.guards[a].currentDeps = Add(@, path)]
      ELSE w

\* the deep-reactivity branch of get: an object value is wrapped once per
\* key and the cached wrapper is returned from then on
wrapNested(w, path, prop, currentValue) ==
    IF currentValue.t = "obj"
      THEN [w |-> IF prop \in w.pulses[path].nestedCache THEN w
                  ELSE [w EXCEPT !.pulses[path].nestedCache = @ \cup {prop},
                                 !.pulses[ChildPath(path, prop)] =
                                     NewPulse(currentValue.n)],
            v |-> currentValue, next |-> ChildPath(path, prop)]
      ELSE [w |-> w, v |-> currentValue, next |-> None]

\* proxy[prop] for a data property: the world after the read, the value
\* read and, when the value is an object, the path of the proxy returned
proxyGet(w, path, prop) ==
    wrapNested(SourceTrack(getSignal(trackAccess(w, path), path, prop),
                           SignalOf(path, prop)),
               path, prop,
               getSignal(w, path, prop).sources[SignalOf(path, prop)].value)

\* state.k1.k2...kn, read left to right
RECURSIVE getChain(_, _, _)
chainStep(r, props) ==
    IF Len(props) = 1 THEN r ELSE getChain(r.w, r.next, Tail(props))

getChain(w, path, props) == chainStep(proxyGet(w, path, Head(props)), props)

\* the evaluator () => state.k1...kn
BodyPath(w, e) ==
    LET r == getChain(w, e.deps[1], Tail(e.deps))
    IN [w |-> r.w, out |-> Ret(r.v)]

\* typeof dep === 'function': a Source or a Guard of the program
IsCallable(w, dep) == dep \in (DOMAIN w.sources) \cup (DOMAIN w.guards)

\* dependencies.map(dep => typeof dep === 'function' ? dep() : dep), the
\* reads in order; a dependency that is not callable is the literal 1
RECURSIVE MapTrack(_, _)
MapTrack(w, deps) ==
    IF deps = <<>> THEN w
    ELSE MapTrack(IF IsCallable(w, Head(deps)) THEN ReadTrack(w, Head(deps)) ELSE w,
                  Tail(deps))

\* (mutant) the values handed over in reverse order
MapValuesReversed(w, deps) ==
    [i \in 1..Len(deps) |->
        LET d == deps[Len(deps) + 1 - i] IN
        IF IsCallable(w, d) THEN ReadValue(w, d) ELSE Num(1)]

\* the values handed to the processor
MapValues(w, deps) ==
    [i \in 1..Len(deps) |->
        IF IsCallable(w, deps[i]) THEN ReadValue(w, deps[i]) ELSE Num(1)]

\* the processor of the model's compute: (x, c, y) => 4 * x + 2 * c + y
Processor(values) == Num(4 * values[1].n + 2 * values[2].n + values[3].n)

\* the evaluator compute() hands to guard()
BodyCompute(w, e) ==
    LET w1 == MapTrack(w, e.deps)
    IN [w |-> w1, out |-> Ret(Processor(MapValues(w1, e.deps)))]

\* the evaluator () => a.get() + b.get() + 1
BodySum(w, e) ==
    LET w1 == MapTrack(w, e.deps)
    IN [w |-> w1,
        out |-> Ret(Num(ReadValue(w1, e.deps[1]).n + ReadValue(w1, e.deps[2]).n + 1))]

\* _evaluator(): the call of the user's function
RunEvaluator(w, g) ==
    LET e == w.cfg.ev[g] IN
    CASE e.kind = "table" -> BodyTable(w, e)
      [] e.kind = "id" -> BodyId(w, e)
      [] e.kind = "and" -> BodyAnd(w, e)
      [] e.kind = "cyc" -> BodyCyc(w, e)
      [] e.kind = "any" -> BodyAny(w, e)
      [] e.kind = "not" -> BodyNot(w, e)
      [] e.kind = "notfn" -> BodyNotFn(w, e)
      [] e.kind = "compute" -> BodyCompute(w, e)
      [] e.kind = "path" -> BodyPath(w, e)
      [] e.kind = "sum" -> BodySum(w, e)
      [] e.kind = "cycthrow" -> BodyCycThrow(w, e)
      [] OTHER -> BodyAll(w, e)

(***************************************************************************)
(* guard.ts: state assignments of evaluate()                               *)
(***************************************************************************)
\* name ? `${name} failed` : 'condition failed', as a GUARD_FAIL reason
FailedReason(c, g) ==
    Reason("GUARD_FAIL",
           IF GuardName(c, g) # "" THEN GuardName(c, g) \o " failed"
           ELSE "condition failed",
           "")

\* state = { status: 'fail', reason, lastReason }
FailState(gr, reason, lastReason) ==
    [gr EXCEPT !.status = "fail", !.value = VUndef,
               !.reason = reason, !.lastReason = lastReason]

\* state = { ...state, status: 'pending' }
PendingState(gr) == [gr EXCEPT !.status = "pending"]

\* state = { status: 'ok', value }
OkState(gr, v) ==
    [gr EXCEPT !.status = "ok", !.value = v,
               !.reason = NoReason, !.lastReason = NoReason]

\* (mutant) a synchronous branch that treats undefined like false
SyncStateFalsy(c, g, gr, result) ==
    IF result = VFalse \/ result = VUndef
      THEN FailState(gr, FailedReason(c, g), FailedReason(c, g))
    ELSE OkState(gr, result)

\* the synchronous branch: false / undefined / any other value
SyncState(c, g, gr, result) ==
    IF result = VFalse THEN FailState(gr, FailedReason(c, g), FailedReason(c, g))
    ELSE IF result = VUndef THEN PendingState(gr)
    ELSE OkState(gr, result)

\* the .then continuation: false / undefined / any other value
ResolvedState(c, g, gr, resolved) ==
    IF resolved = VFalse THEN FailState(gr, FailedReason(c, g), FailedReason(c, g))
    ELSE IF resolved = VUndef THEN PendingState(gr)
    ELSE OkState(gr, resolved)

\* the reason built from a thrown value that is not null/undefined
NormalizeError(err) ==
    IF err.kind = "pulseFail" THEN Reason(err.code, err.message, err.meta)
    ELSE IF err.meta # ""
      THEN Reason(IF err.code # "" THEN err.code ELSE "ERROR", err.message, err.meta)
    ELSE Reason("ERROR", err.message, "")

\* the reason built by the .catch continuation (err && ... tolerates null,
\* whose String() is "null")
NormalizeRejection(err) ==
    IF err.kind = "nullish" THEN Reason("ERROR", "null", "")
    ELSE NormalizeError(err)

\* what a call throws when the call stack is exhausted
RangeError == Err("Error", "", "Maximum call stack size exceeded", "")

\* what reading a property of null / undefined throws
TypeError == Err("Error", "", "Cannot read properties of null", "")

\* persistDependencies(): lastDeps = new Set(currentDeps)
persistDependencies(w, g) ==
    [w EXCEPT !.guards[g].lastDeps = w.guards[g].currentDeps]

\* (mutant) a notify gate that looks at the status alone
ChangedStatusOnly(oldStatus, oldValue, gr) == oldStatus # gr.status

\* (mutant) a synchronous branch without a notify gate
ChangedAlways(oldStatus, oldValue, gr) == TRUE

\* the notify gate of the synchronous branch
Changed(oldStatus, oldValue, gr) == oldStatus # gr.status \/ oldValue # gr.value

\* ghost: how the latest run of a guard ended
OutCode(v) == IF v = VFalse THEN "false" ELSE IF v = VUndef THEN "undef" ELSE "value"

(***************************************************************************)
(* guard.ts: evaluate(), notifyDependents(), _hydrate()                    *)
(***************************************************************************)
RECURSIVE evaluate(_, _)

\* deps.forEach(dep => dep.notify()): an exception ends the loop
RECURSIVE notifyList(_, _)
notifyList(w, deps) ==
    IF deps = <<>> \/ w.exc # NoErr THEN w
    ELSE notifyList(evaluate(w, Head(deps)), Tail(deps))

\* subscribers.forEach(sub => sub({ ...state }))
CallSubscribers(w, g) ==
    IF g \in w.cfg.subs
      THEN Log(w, "gsub", g, w.guards[g].value, w.guards[g].status)
      ELSE w

notifyDependents(w, g) ==
    LET deps == w.guards[g].dependents
        w1 == Log([w EXCEPT !.guards[g].dependents = <<>>],
                  "notify", g, VUndef, w.guards[g].status)
        w2 == notifyList(w1, deps)
    IN IF w2.exc # NoErr THEN w2 ELSE CallSubscribers(w2, g)

\* (mutant) a catch block that persists the dependencies and rethrows
catchBranchRethrow(w, g, err) == [persistDependencies(w, g) EXCEPT !.exc = err]

\* (mutant) a catch block that does not persist the dependencies
catchBranchNoPersist(w, g, err) ==
    IF err.kind = "nullish" THEN [w EXCEPT !.exc = TypeError]
    ELSE LET reason == NormalizeError(err)
             w2 == [w EXCEPT !.guards[g] =
                        [FailState(@, reason, reason) EXCEPT !.commitRun =
                            IF w.guards[g].lastOut = "cyclic" THEN 0
                            ELSE w.guards[g].execs]]
         IN notifyDependents(w2, g)

\* the catch block of evaluate(); w carries no exception any more
catchBranch(w, g, err) ==
    LET w1 == persistDependencies(w, g) IN
    IF err.kind = "nullish" THEN [w1 EXCEPT !.exc = TypeError]
    ELSE LET reason == NormalizeError(err)
             w2 == [w1 EXCEPT !.guards[g] =
                        [FailState(@, reason, reason) EXCEPT !.commitRun =
                            IF w.guards[g].lastOut = "cyclic" THEN 0
                            ELSE w.guards[g].execs]]
         IN notifyDependents(w2, g)

\* an exception leaving the callback of runInContext: finally pops, catch handles
Caught(w, g) ==
    catchBranch(Pop([w EXCEPT !.exc = NoErr, !.guards[g].lastOut = "caught"]),
                g, w.exc)

\* (mutant) a Promise branch that notifies whatever the status was
promiseBranchAlways(w, g, currentId, out) ==
    LET w1 == notifyDependents([w EXCEPT !.guards[g] = PendingState(@)], g)
    IN IF w1.exc # NoErr THEN Caught(w1, g)
       ELSE Pop([w1 EXCEPT !.inflight = @ \cup
                    {[g |-> g, id |-> currentId, run |-> w.guards[g].execs,
                      out |-> out]}])

\* the Promise branch, run with the guard on the stack
promiseBranch(w, g, currentId, out) ==
    LET w1 == IF w.guards[g].status # "pending"
                THEN notifyDependents(
                         [w EXCEPT !.guards[g] = PendingState(@)], g)
                ELSE w
    IN IF w1.exc # NoErr THEN Caught(w1, g)
       ELSE Pop([w1 EXCEPT !.inflight = @ \cup
                    {[g |-> g, id |-> currentId, run |-> w.guards[g].execs,
                      out |-> out]}])

\* the synchronous branch, run with the guard on the stack
syncBranch(w, g, oldStatus, oldValue, result) ==
    LET w1 == persistDependencies(w, g)
        w2 == [w1 EXCEPT !.guards[g] =
                   [SyncState(w.cfg, g, @, result) EXCEPT !.commitRun =
                        w.guards[g].execs]]
        w3 == IF Changed(oldStatus, oldValue, w2.guards[g])
                THEN notifyDependents(w2, g)
                ELSE w2
    IN IF w3.exc # NoErr THEN Caught(w3, g) ELSE Pop(w3)

\* (mutant) a runInContext that pops after a normal return only (no finally)
dispatchNoFinally(w, g, oldStatus, oldValue, currentId, r) ==
    IF w.cfg.ev[g].async
      THEN promiseBranch([r.w EXCEPT !.guards[g].lastOut = "promise",
                                     !.guards[g].lastRet = VUndef],
                         g, currentId, r.out)
    ELSE IF r.out.t = "throw"
      THEN catchBranch([r.w EXCEPT !.guards[g].lastOut = "throw",
                                   !.guards[g].lastRet = VUndef],
                       g, r.out.err)
    ELSE syncBranch([r.w EXCEPT !.guards[g].lastOut = OutCode(r.out.v),
                                !.guards[g].lastRet = r.out.v],
                    g, oldStatus, oldValue, r.out.v)

\* what evaluate() does with the evaluator's outcome r: a Promise, an
\* exception, or a synchronous result
dispatch(w, g, oldStatus, oldValue, currentId, r) ==
    IF w.cfg.ev[g].async
      THEN promiseBranch([r.w EXCEPT !.guards[g].lastOut = "promise",
                                     !.guards[g].lastRet = VUndef],
                         g, currentId, r.out)
    ELSE IF r.out.t = "throw"
      THEN catchBranch(Pop([r.w EXCEPT !.guards[g].lastOut = "throw",
                                       !.guards[g].lastRet = VUndef]),
                       g, r.out.err)
    ELSE syncBranch([r.w EXCEPT !.guards[g].lastOut = OutCode(r.out.v),
                                !.guards[g].lastRet = r.out.v],
                    g, oldStatus, oldValue, r.out.v)

\* the return of an evaluate() call
Leave(w) == [w EXCEPT !.depth = @ - 1]

\* (mutant) an evaluate() that starts no evaluator while a run is in flight
evaluateUnlessInFlight(w, g) ==
    LET oldStatus == w.guards[g].status
        oldValue == w.guards[g].value
        currentId == w.guards[g].evaluationId + 1
        w1 == [w EXCEPT !.guards[g].evaluationId = currentId,
                        !.guards[g].currentDeps = <<>>,
                        !.depth = @ + 1]
    IN IF w.depth >= MaxStack THEN [w EXCEPT !.exc = RangeError]
       ELSE IF OnStack(w1, g)
         THEN Leave(catchBranch([w1 EXCEPT !.guards[g].lastOut = "cyclic",
                                            !.guards[g].lastRet = VUndef], g,
                                CyclicError(w.cfg, g)))
       ELSE IF \E p \in w.inflight : p.g = g
         THEN Leave(w1)
       ELSE
         Leave(dispatch(w, g, oldStatus, oldValue, currentId,
                        RunEvaluator(
                            Log(Push([w1 EXCEPT !.guards[g].execs = @ + 1], g),
                                "eval", g, Bool(Has(w1.guardStack, g)), oldStatus),
                            g)))

\* evaluate(); the call itself fails when the call stack is exhausted
evaluate(w, g) ==
    LET oldStatus == w.guards[g].status
        oldValue == w.guards[g].value
        currentId == w.guards[g].evaluationId + 1
        w1 == [w EXCEPT !.guards[g].evaluationId = currentId,
                        !.guards[g].currentDeps = <<>>,
                        !.depth = @ + 1]
    IN IF w.depth >= MaxStack THEN [w EXCEPT !.exc = RangeError]
       ELSE IF OnStack(w1, g)
         THEN Leave(catchBranch([w1 EXCEPT !.guards[g].lastOut = "cyclic",
                                            !.guards[g].lastRet = VUndef], g,
                                CyclicError(w.cfg, g)))
       ELSE
         Leave(dispatch(w, g, oldStatus, oldValue, currentId,
                        RunEvaluator(
                            Log(Push([w1 EXCEPT !.guards[g].execs = @ + 1], g),
                                "eval", g, Bool(Has(w1.guardStack, g)), oldStatus),
                            g)))

\* (mutant) a .then continuation that commits without comparing run-ids
thenHandlerNoCheck(w, p) ==
    LET w1 == persistDependencies(w, p.g)
        w2 == [w1 EXCEPT !.guards[p.g] =
                   [ResolvedState(w.cfg, p.g, @, p.out.v) EXCEPT !.commitRun = p.run]]
    IN notifyDependents(w2, p.g)

\* the .then continuation of a run
thenHandler(w, p) ==
    IF p.id = w.guards[p.g].evaluationId
      THEN LET w1 == persistDependencies(w, p.g)
               w2 == [w1 EXCEPT !.guards[p.g] =
                          [ResolvedState(w.cfg, p.g, @, p.out.v)
                              EXCEPT !.commitRun = p.run]]
           IN notifyDependents(w2, p.g)
      ELSE w

\* (mutant) a .catch continuation that takes the new reason as lastReason
catchHandlerFresh(w, p, err) ==
    IF p.id = w.guards[p.g].evaluationId
      THEN LET w1 == persistDependencies(w, p.g)
               reason == NormalizeRejection(err)
               w2 == [w1 EXCEPT !.guards[p.g] =
                          [FailState(@, reason, reason) EXCEPT !.commitRun = p.run]]
           IN notifyDependents(w2, p.g)
      ELSE w

\* (mutant) a .catch continuation that commits without comparing run-ids
catchHandlerNoCheck(w, p, err) ==
    LET w1 == persistDependencies(w, p.g)
        reason == NormalizeRejection(err)
        last == IF w.guards[p.g].reason # NoReason
                  THEN w.guards[p.g].reason ELSE reason
        w2 == [w1 EXCEPT !.guards[p.g] =
                   [FailState(@, reason, last) EXCEPT !.commitRun = p.run]]
    IN notifyDependents(w2, p.g)

\* the .catch continuation of a run
catchHandler(w, p, err) ==
    IF p.id = w.guards[p.g].evaluationId
      THEN LET w1 == persistDependencies(w, p.g)
               reason == NormalizeRejection(err)
               last == IF w.guards[p.g].reason # NoReason
                         THEN w.guards[p.g].reason ELSE reason
               w2 == [w1 EXCEPT !.guards[p.g] =
                          [FailState(@, reason, last) EXCEPT !.commitRun = p.run]]
           IN notifyDependents(w2, p.g)
      ELSE w

\* result.then(...).catch(...): an exception of the .then continuation is
\* handed to the .catch continuation
settle(w, p) ==
    LET w0 == [w EXCEPT !.inflight = @ \ {p}] IN
    IF p.out.t = "throw" THEN catchHandler(w0, p, p.out.err)
    ELSE LET w1 == thenHandler(w0, p)
         IN IF w1.exc # NoErr
              THEN catchHandler([w1 EXCEPT !.exc = NoErr], p, w1.exc)
              ELSE w1

\* (mutant) a _hydrate that runs the evaluator after setting the state
hydrateAndRun(w, g, newState) ==
    LET w1 == [w EXCEPT !.guards[g] =
                   [@ EXCEPT !.status = newState.status,
                             !.value = newState.value,
                             !.reason = newState.reason,
                             !.lastReason = newState.lastReason,
                             !.evaluationId = @ + 1,
                             !.lastOut = "hydrated",
                             !.lastRet = VUndef,
                             !.commitRun = 0]]
    IN evaluate(w1, g)

\* (mutant) a _hydrate that leaves the run-id as it is
hydrateNoBump(w, g, newState) ==
    LET w1 == [w EXCEPT !.guards[g] =
                   [@ EXCEPT !.status = newState.status,
                             !.value = newState.value,
                             !.reason = newState.reason,
                             !.lastReason = newState.lastReason,
                             !.lastOut = "hydrated",
                             !.lastRet = VUndef,
                             !.commitRun = 0]]
    IN notifyDependents(w1, g)

\* _hydrate(newState)
hydrate(w, g, newState) ==
    LET w1 == [w EXCEPT !.guards[g] =
                   [@ EXCEPT !.status = newState.status,
                             !.value = newState.value,
                             !.reason = newState.reason,
                             !.lastReason = newState.lastReason,
                             !.evaluationId = @ + 1,
                             !.lastOut = "hydrated",
                             !.lastRet = VUndef,
                             !.commitRun = 0]]
    IN notifyDependents(w1, g)

\* one entry of explain().dependencies
DepEntry(w, d) ==
    LET depName == IF d \in w.cfg.named THEN d ELSE "unnamed" IN
    IF IsSource(w, d)
      THEN [name |-> depName, type |-> "source", status |-> "", reason |-> NoReason]
      ELSE [name |-> depName, type |-> "guard", status |-> w.guards[d].status,
            reason |-> IF w.guards[d].status = "fail" THEN w.guards[d].reason
                       ELSE NoReason]

\* g.explain()
explain(w, g) ==
    [name |-> IF GuardName(w.cfg, g) # "" THEN GuardName(w.cfg, g) ELSE "guard",
     status |-> w.guards[g].status,
     reason |-> w.guards[g].reason,
     lastReason |-> w.guards[g].lastReason,
     value |-> w.guards[g].value,
     dependencies |-> [i \in 1..Len(w.guards[g].lastDeps) |->
                          DepEntry(w, w.guards[g].lastDeps[i])]]

(***************************************************************************)
(* source.ts: set                                                          *)
(***************************************************************************)
\* subscribers.forEach(sub => sub(value))
SourceSubscribers(w, s) ==
    IF s \in w.cfg.subs THEN Log(w, "sub", s, w.sources[s].value, "") ELSE w

\* (mutant) a set that notifies without storing the new value
sourceSetNoStore(w, s, newValue) ==
    IF ~Equals(w.cfg.eq[s], w.sources[s].value, newValue)
      THEN LET w1 == SourceSubscribers(w, s)
               deps == w1.sources[s].dependents
           IN notifyList([w1 EXCEPT !.sources[s].dependents = <<>>], deps)
      ELSE w

\* (mutant) a set without the equality test
sourceSetAlways(w, s, newValue) ==
    LET w1 == SourceSubscribers([w EXCEPT !.sources[s].value = newValue], s)
        deps == w1.sources[s].dependents
    IN notifyList([w1 EXCEPT !.sources[s].dependents = <<>>], deps)

\* (mutant) a set that never empties the dependent set
sourceSetKeep(w, s, newValue) ==
    IF ~Equals(w.cfg.eq[s], w.sources[s].value, newValue)
      THEN LET w1 == SourceSubscribers([w EXCEPT !.sources[s].value = newValue], s)
           IN notifyList(w1, w1.sources[s].dependents)
      ELSE w

\* (mutant) a set that empties the dependent set after notifying
sourceSetClearAfter(w, s, newValue) ==
    IF ~Equals(w.cfg.eq[s], w.sources[s].value, newValue)
      THEN LET w1 == SourceSubscribers([w EXCEPT !.sources[s].value = newValue], s)
               w2 == notifyList(w1, w1.sources[s].dependents)
           IN [w2 EXCEPT !.sources[s].dependents = <<>>]
      ELSE w

sourceSet(w, s, newValue) ==
    IF ~Equals(w.cfg.eq[s], w.sources[s].value, newValue)
      THEN LET w1 == SourceSubscribers([w EXCEPT !.sources[s].value = newValue], s)
               deps == w1.sources[s].dependents
           IN notifyList([w1 EXCEPT !.sources[s].dependents = <<>>], deps)
      ELSE w

(***************************************************************************)
(* signal.ts: createSignal, batch                                          *)
(* A Signal is kept in sources[] like a Source (value, dependents); its    *)
(* get() is the read of a Source.  batchQueue holds the notify closures    *)
(* of the Signals, named by their Signal, in insertion order.              *)
(***************************************************************************)
\* notify(): subscribers first, then a copy of the dependents
signalNotify(w, s) ==
    notifyList([SourceSubscribers(w, s) EXCEPT !.sources[s].dependents = <<>>],
               w.sources[s].dependents)

\* (mutant) a scheduler that never defers
scheduleNow(w, s) == signalNotify(w, s)

\* scheduleNotification(notify)
scheduleNotification(w, s) ==
    IF w.batchQueue # Null
      THEN [w EXCEPT !.batchQueue = Add(@, s)]
      ELSE signalNotify(w, s)

\* signal.set(newValue), with the default equals
signalSet(w, s, newValue) ==
    IF w.sources[s].value # newValue
      THEN scheduleNotification([w EXCEPT !.sources[s].value = newValue], s)
      ELSE w

\* batch(fn) up to the call of fn
batchEnter(w) ==
    [w EXCEPT !.batchDepth = @ + 1,
              !.batchQueue = IF @ = Null THEN <<>> ELSE @]

\* queue.forEach(notify => notify()): an exception ends the loop
RECURSIVE flush(_, _)
flush(w, queue) ==
    IF queue = <<>> \/ w.exc # NoErr THEN w
    ELSE flush(signalNotify(w, Head(queue)), Tail(queue))

\* the finally block of batch(fn)
batchExit(w) ==
    IF w.batchDepth - 1 = 0 /\ w.batchQueue # Null
      THEN flush([w EXCEPT !.batchDepth = 0, !.batchQueue = Null], w.batchQueue)
      ELSE [w EXCEPT !.batchDepth = @ - 1]

(***************************************************************************)
(* pulse.ts: the set trap of a pulse proxy                                 *)
(***************************************************************************)
\* subscribers.forEach(sub => sub(proxy))
PulseSubscribers(w, path) ==
    IF path \in w.cfg.subs THEN Log(w, "sub", path, VUndef, "") ELSE w

\* notify(): the subscribers and dependents of this proxy
pulseNotify(w, path) ==
    IF w.exc # NoErr THEN w
    ELSE notifyList([PulseSubscribers(w, path)
                         EXCEPT !.pulses[path].dependents = <<>>],
                    w.pulses[path].dependents)

\* proxy[prop] = value
proxySet(w, path, prop, value) ==
    IF w.heap[w.pulses[path].target][prop] = value THEN w
    ELSE pulseNotify(
             signalSet(
                 getSignal([w EXCEPT !.heap[w.pulses[path].target][prop] = value],
                           path, prop),
                 SignalOf(path, prop), value),
             path)

\* the proxy an assignment state.k1...kn = v ends on
Owner(w, root, props) ==
    IF Len(props) = 1 THEN [w |-> w, next |-> root]
    ELSE getChain(w, root, SubSeq(props, 1, Len(props) - 1))

\* state.k1...kn = value
assign(w, root, props, value) ==
    proxySet(Owner(w, root, props).w, Owner(w, root, props).next,
             props[Len(props)], value)

(***************************************************************************)
(* signal.ts: effect(fn).  fx is the closure state of the effect of the    *)
(* run: cleanup (whether the variable holds a function), disposed, and the *)
(* ghost counters runs (calls of fn) and cleanups (calls of a cleanup).    *)
(***************************************************************************)
NoEffect ==
    [created |-> FALSE, disposed |-> FALSE, cleanup |-> FALSE,
     runs |-> 0, cleanups |-> 0]

\* run(): the previous cleanup, then cleanup = fn(); fn returns a cleanup
\* function
effectRun(f) ==
    IF f.disposed THEN f
    ELSE [f EXCEPT !.cleanups = IF f.cleanup THEN @ + 1 ELSE @,
                   !.runs = @ + 1,
                   !.cleanup = TRUE]

\* effect(fn): the initial run
effect(f) == effectRun([f EXCEPT !.created = TRUE])

\* the function effect() returns
dispose(f) ==
    [f EXCEPT !.disposed = TRUE,
              !.cleanups = IF f.cleanup THEN @ + 1 ELSE @]

(***************************************************************************)
(* registry.ts: the Registry.  The repository holds two Registry classes:  *)
(* the identity-proxy one ("proxy") and the generation-based one           *)
(* ("generation"); cfg.registry says which one the run loads.              *)
(*   targets / proxies : uid -> unit, uid -> proxy ("proxy")               *)
(*   units : name -> unit ("generation"); generation[u] = u._generation    *)
(*   ghost: registered (identities registered since reset), latest (the    *)
(*   unit registered last under an identity), first (what the first        *)
(*   register call of an identity returned)                                *)
(***************************************************************************)
\* the units of a run: u1 and u2 are both created as 'x' (u2 by a reloaded
\* module), u3 as 'y'
Units == {"u1", "u2", "u3"}

UnitName(u) == IF u = "u3" THEN "y" ELSE "x"

Names == {UnitName(u) : u \in Units}

\* generateUID(name, undefined)
generateUID(name) == "pulse:" \o name

\* what a register call returns: the identity proxy of a uid, or undefined
ProxyRef(uid) == [kind |-> "proxy", id |-> uid]

UndefinedRef == [kind |-> "undefined", id |-> ""]

\* new Registry()
NewRegistry ==
    [targets |-> [n \in Names |-> None], proxies |-> {},
     units |-> [n \in Names |-> None], generation |-> [u \in Units |-> -1],
     currentGeneration |-> 0, cleanupScheduled |-> FALSE,
     registered |-> {}, latest |-> [n \in Names |-> None],
     first |-> [n \in Names |-> UndefinedRef], returned |-> UndefinedRef]

\* ghost: a register call of unit u returned ref
Noted(r, u, ref) ==
    [r EXCEPT !.registered = @ \cup {UnitName(u)},
              !.latest[UnitName(u)] = u,
              !.first[UnitName(u)] =
                  IF UnitName(u) \in r.registered THEN @ ELSE ref,
              !.returned = ref]

\* Registry.register of the identity-proxy Registry, for a named unit
registerProxy(r, u) ==
    Noted([r EXCEPT !.targets[UnitName(u)] = u,
                    !.proxies = @ \cup {UnitName(u)}],
          u, ProxyRef(generateUID(UnitName(u))))

\* scheduleCleanup() of the generation-based Registry
scheduleCleanup(r) ==
    IF r.cleanupScheduled THEN r
    ELSE [r EXCEPT !.cleanupScheduled = TRUE, !.currentGeneration = @ + 1]

\* Registry.register of the generation-based Registry, for a named unit
registerGeneration(r, u) ==
    LET r1 == [r EXCEPT !.generation[u] = r.currentGeneration]
        r2 == IF r1.units[UnitName(u)] # None THEN scheduleCleanup(r1) ELSE r1
    IN Noted([r2 EXCEPT !.units[UnitName(u)] = u], u, UndefinedRef)

\* cleanupOldGenerations(), then cleanupScheduled = false
cleanupOldGenerations(r) ==
    [r EXCEPT !.units =
                 [n \in Names |->
                     IF /\ r.units[n] # None
                        /\ r.generation[r.units[n]] # -1
                        /\ r.generation[r.units[n]] < r.currentGeneration
                       THEN None ELSE r.units[n]],
              !.cleanupScheduled = FALSE]

\* reset(); a unit keeps the _generation it was stamped with
resetRegistry(r) == [NewRegistry EXCEPT !.generation = r.generation]

\* the entry the Registry holds for an identity (None if none)
Entry(c, r, n) == IF c.registry = "proxy" THEN r.targets[n] ELSE r.units[n]

\* the unit a reference handed out by register stands for now: the proxy
\* traps look the target up on every operation
Deref(r, ref) ==
    IF ref.kind = "proxy" /\ \E n \in r.proxies : generateUID(n) = ref.id
      THEN r.targets[CHOOSE n \in r.proxies : generateUID(n) = ref.id]
      ELSE None

(***************************************************************************)
(* Programs: the Sources and Guards a test file builds                     *)
(***************************************************************************)
E(kind, async, deps, codes) ==
    [kind |-> kind, async |-> async, deps |-> deps, codes |-> codes]

\* snapshot: the guards the hydration snapshot of the run names;
\* manual: the guards whose _evaluate() the run calls;
\* signals: the entries of init made with createSignal (the run of such a
\* program calls batch())
Program(name, init, eq, subs, named, order, ev, snapshot, manual) ==
    [name |-> name, init |-> init, eq |-> eq, subs |-> subs, named |-> named,
     order |-> order, ev |-> ev, snapshot |-> snapshot, manual |-> manual,
     signals |-> {}, heap |-> <<>>, chains |-> {}, registry |-> "none",
     effect |-> <<>>]

\* const count = source(0); const isEven = guard('is-even', () => count() % 2 === 0)
PEven ==
    Program("even", [s \in {"count"} |-> Num(0)], [s \in {"count"} |-> "strict"],
            {"count", "isEven"}, {"isEven"}, <<"isEven">>,
            [g \in {"isEven"} |-> E("table", FALSE, <<"count">>, <<"true", "false">>)],
            {"isEven"}, {"isEven"})

\* const id = source(1); const slow = guard('slow', async () => { const currentId = id(); await ...; return currentId })
PRace ==
    Program("race", [s \in {"id"} |-> Num(1)], [s \in {"id"} |-> "strict"],
            {"slow"}, {"slow"}, <<"slow">>,
            [g \in {"slow"} |-> E("table", TRUE, <<"id">>, <<"val">>)],
            {"slow"}, {"slow"})

\* const toggle = source(false); A = guard('A', () => { if (toggle()) return !b(); return true }); B = guard('B', () => a())
PCycle ==
    Program("cycle", [s \in {"toggle"} |-> Num(0)], [s \in {"toggle"} |-> "strict"],
            {}, {"A", "B"}, <<"A", "B">>,
            [g \in {"A", "B"} |->
                IF g = "A" THEN E("cyc", FALSE, <<"toggle", "B">>, <<>>)
                ELSE E("id", FALSE, <<"A">>, <<>>)],
            {"A"}, {"B"})

\* a named and an unnamed guard over the named source S, returning false,
\* undefined or the value, or throwing
PTri ==
    Program("tri", [s \in {"S"} |-> Num(1)], [s \in {"S"} |-> "strict"],
            {"S", "G"}, {"S", "G"}, <<"G", "H">>,
            [g \in {"G", "H"} |->
                IF g = "G" THEN E("table", FALSE, <<"S">>, <<"false", "throw", "undef", "val">>)
                ELSE E("table", FALSE, <<"S">>, <<"undef", "val", "false", "fail">>)],
            {"G"}, {"H"})

\* gA, gB over the sources a, b; all = guard.all('all-ok', [gA, gB])
PAll ==
    Program("all", [s \in {"a", "b"} |-> Num(0)], [s \in {"a", "b"} |-> "strict"],
            {"all"}, {"a", "b", "gA", "gB", "all"}, <<"gA", "gB", "all">>,
            [g \in {"gA", "gB", "all"} |->
                IF g = "gA" THEN E("table", FALSE, <<"a">>, <<"true", "fail", "false">>)
                ELSE IF g = "gB" THEN E("table", FALSE, <<"b">>, <<"true", "false", "undef">>)
                ELSE E("all", FALSE, <<"gA", "gB">>, <<>>)],
            {"gB"}, {})

\* a diamond: A and B read S, C = () => A() && B(), D = () => C()
PDiamond ==
    Program("diamond", [s \in {"S"} |-> Num(0)], [s \in {"S"} |-> "strict"],
            {"S"}, {"A", "B", "C", "D"}, <<"A", "B", "C", "D">>,
            [g \in {"A", "B", "C", "D"} |->
                IF g = "A" THEN E("table", FALSE, <<"S">>, <<"true", "true", "false", "undef">>)
                ELSE IF g = "B" THEN E("table", FALSE, <<"S">>, <<"val">>)
                ELSE IF g = "C" THEN E("and", FALSE, <<"A", "B">>, <<>>)
                ELSE E("id", FALSE, <<"C">>, <<>>)],
            {}, {})

\* a source with options.equals, read by one guard
PCustom ==
    Program("custom", [s \in {"P"} |-> Num(0)], [s \in {"P"} |-> "custom"],
            {"P"}, {"P", "V"}, <<"V">>,
            [g \in {"V"} |-> E("table", FALSE, <<"P">>, <<"val">>)],
            {}, {})

\* gA, gB over the sources a, b; any = guard.any('any-ok', [gA, gB]);
\* notG = guard.not(gA); notA = guard.not('not-a', () => a());
\* notV = guard.not(() => gB())
PCompose ==
    Program("compose", [s \in {"a", "b"} |-> Num(2)], [s \in {"a", "b"} |-> "strict"],
            {}, {"gA", "gB", "any", "notA"},
            <<"gA", "gB", "any", "notG", "notA", "notV">>,
            [g \in {"gA", "gB", "any", "notG", "notA", "notV"} |->
                IF g = "gA" THEN E("table", FALSE, <<"a">>, <<"true", "fail", "false">>)
                ELSE IF g = "gB" THEN E("table", FALSE, <<"b">>, <<"true", "undef", "false">>)
                ELSE IF g = "any" THEN E("any", FALSE, <<"gA", "gB">>, <<>>)
                ELSE IF g = "notG" THEN E("not", FALSE, <<"gA">>, <<>>)
                ELSE IF g = "notA" THEN E("notfn", FALSE, <<"a">>, <<>>)
                ELSE E("notfn", FALSE, <<"gB">>, <<>>)],
            {}, {})

\* const x = source(1), y = source(2);
\* const sum = compute('sum', [x, 1, y], (x, c, y) => 4 * x + 2 * c + y)
PCompute ==
    Program("compute", [s \in {"x", "y"} |-> IF s = "x" THEN Num(1) ELSE Num(2)],
            [s \in {"x", "y"} |-> "strict"],
            {"sum"}, {"sum"}, <<"sum">>,
            [g \in {"sum"} |-> E("compute", FALSE, <<"x", "1", "y">>, <<>>)],
            {}, {"sum"})

\* const r = source(0); const job = guard('job', async () => { ... }) that
\* resolves with r, throws an Error, calls guardFail or throws an Error with
\* code and meta, by the value of r
PRetry ==
    Program("retry", [s \in {"r"} |-> Num(0)], [s \in {"r"} |-> "strict"],
            {}, {"job"}, <<"job">>,
            [g \in {"job"} |-> E("table", TRUE, <<"r">>, <<"val", "throw", "fail", "auth">>)],
            {"job"}, {})

\* const t = source(0); const T = guard('T', () => { ... }) that returns true,
\* throws null, throws an Error with a code, or throws an Error with code and
\* meta, by the value of t; D = guard(() => T())
PThrow ==
    Program("throw", [s \in {"t"} |-> Num(0)], [s \in {"t"} |-> "strict"],
            {}, {"T"}, <<"T", "D">>,
            [g \in {"T", "D"} |->
                IF g = "T" THEN E("table", FALSE, <<"t">>, <<"true", "null", "coded", "auth">>)
                ELSE E("id", FALSE, <<"T">>, <<>>)],
            {}, {"T"})

\* const a = createSignal(0), b = createSignal(0), each with a subscriber;
\* G = guard('G', () => a.get() + b.get() + 1);
\* H = guard('H', () => a.get())
PBatch ==
    [Program("batch", [s \in {"a", "b"} |-> Num(0)], [s \in {"a", "b"} |-> "strict"],
             {"a", "b", "G"}, {"G", "H"}, <<"G", "H">>,
             [g \in {"G", "H"} |->
                 IF g = "G" THEN E("sum", FALSE, <<"a", "b">>, <<>>)
                 ELSE E("table", FALSE, <<"a">>, <<"val">>)],
             {}, {})
       EXCEPT !.signals = {"a", "b"}]

\* a property chain the run reads and assigns, and whether it holds objects
Chain(props, objects) == [props |-> props, objects |-> objects]

\* const state = pulse({ a: 0, b: 0, user: { profile: { name: 1 } } }) with a
\* $subscribe listener; other = { profile: { name: 2 } };
\* GA = guard('GA', () => state.a); GN = guard('GN', () => state.user.profile.name)
PPulse ==
    [Program("pulse", <<>>, <<>>, {"state"}, {"GA", "GN"}, <<"GA", "GN">>,
             [g \in {"GA", "GN"} |->
                 IF g = "GA" THEN E("path", FALSE, <<"state", "a">>, <<>>)
                 ELSE E("path", FALSE, <<"state", "user", "profile", "name">>, <<>>)],
             {}, {})
       EXCEPT !.heap = << [k \in {"a", "b", "user"} |->
                              IF k = "user" THEN Ref(2) ELSE Num(0)],
                          [k \in {"profile"} |-> Ref(3)],
                          [k \in {"name"} |-> Num(1)],
                          [k \in {"profile"} |-> Ref(5)],
                          [k \in {"name"} |-> Num(2)] >>,
              !.chains = {Chain(<<"a">>, FALSE), Chain(<<"b">>, FALSE),
                          Chain(<<"user">>, TRUE),
                          Chain(<<"user", "profile", "name">>, FALSE)}]

\* a run that registers units with the identity-proxy Registry
PRegistry ==
    [Program("registry", <<>>, <<>>, {}, {}, <<>>, <<>>, {}, {})
       EXCEPT !.registry = "proxy"]

\* a run that registers units with the generation-based Registry
PHmr ==
    [Program("hmr", <<>>, <<>>, {}, {}, <<>>, <<>>, {}, {})
       EXCEPT !.registry = "generation"]

\* const count = createSignal(0), with a subscriber;
\* const stop = effect(() => { count.get(); return cleanup })
PEffect ==
    [Program("effect", [s \in {"count"} |-> Num(0)], [s \in {"count"} |-> "strict"],
             {"count"}, {}, <<>>, <<>>, {}, {})
       EXCEPT !.signals = {"count"}, !.effect = <<"count">>]

\* const s = source(0); const data = guard('data', async () => { ... }) that
\* resolves with s or with false, by the value of s, with a subscriber;
\* D = guard('D', () => data())
PAsync ==
    Program("async", [s \in {"s"} |-> Num(0)], [s \in {"s"} |-> "strict"],
            {"data"}, {"data", "D"}, <<"data", "D">>,
            [g \in {"data", "D"} |->
                IF g = "data" THEN E("table", TRUE, <<"s">>, <<"val", "false">>)
                ELSE E("id", FALSE, <<"data">>, <<>>)],
            {}, {"data"})

\* const p = source(1), q = source(1);
\* const G = guard('G', () => p() && q())   (q is read only while p is truthy)
PCond ==
    Program("cond", [s \in {"p", "q"} |-> Num(1)], [s \in {"p", "q"} |-> "strict"],
            {}, {"G"}, <<"G">>,
            [g \in {"G"} |-> E("and", FALSE, <<"p", "q">>, <<>>)],
            {}, {})

\* const toggle = source(false);
\* A = guard('A', () => { if (toggle()) { b(); throw new Error('boom') } return true });
\* B = guard('B', () => { if (toggle()) { a(); throw new Error('boom') } return true })
PLoop ==
    Program("loop", [s \in {"toggle"} |-> Num(0)], [s \in {"toggle"} |-> "strict"],
            {}, {"A", "B"}, <<"A", "B">>,
            [g \in {"A", "B"} |->
                IF g = "A" THEN E("cycthrow", FALSE, <<"toggle", "B">>, <<>>)
                ELSE E("cycthrow", FALSE, <<"toggle", "A">>, <<>>)],
            {}, {})

\* const s = source(0); T = guard('T', () => { if (s() % 2) throw null; return true });
\* X = guard('X', () => s())   (T is created first)
PSplit ==
    Program("split", [s \in {"s"} |-> Num(0)], [s \in {"s"} |-> "strict"],
            {}, {"T", "X"}, <<"T", "X">>,
            [g \in {"T", "X"} |->
                IF g = "T" THEN E("table", FALSE, <<"s">>, <<"true", "null">>)
                ELSE E("table", FALSE, <<"s">>, <<"val">>)],
            {}, {})

Programs ==
    {PEven, PRace, PCycle, PTri, PAll, PDiamond, PCustom,
     PCompose, PCompute, PRetry, PThrow, PBatch, PPulse, PRegistry, PHmr,
     PEffect, PAsync, PCond, PLoop, PSplit}

(***************************************************************************)
(* Construction                                                            *)
(***************************************************************************)
\* the locals of guard() before its first evaluate()
NewGuard ==
    [status |-> "pending", value |-> VUndef, reason |-> NoReason,
     lastReason |-> NoReason, evaluationId |-> 0, dependents |-> <<>>,
     currentDeps |-> <<>>, lastDeps |-> <<>>,
     execs |-> 0, lastOut |-> "none", lastRet |-> VUndef, commitRun |-> 0]

\* the locals of source(initialValue, options)
NewSource(initialValue) == [value |-> initialValue, dependents |-> <<>>]

\* guard(name, fn) for each guard of the program in turn: each evaluates once
RECURSIVE ConstructAll(_, _)
ConstructAll(w, order) ==
    IF order = <<>> THEN w
    ELSE ConstructAll(evaluate(w, Head(order)), Tail(order))

\* the Signals a pulse proxy may create, one per property of each proxy
PulseSignals(c) ==
    IF c.heap = <<>> THEN {}
    ELSE {"state#a", "state#b", "state#user", "state.user#profile",
          "state.user.profile#name"}

\* the proxies of the program: the root, made by pulse(...), and the nested
\* ones, made on first access
PulsePaths(c) ==
    IF c.heap = <<>> THEN {} ELSE {"state", "state.user", "state.user.profile"}

Construct(c) ==
    ConstructAll(
        [World(c,
               [s \in (DOMAIN c.init) \cup PulseSignals(c) |->
                   IF s \in DOMAIN c.init THEN NewSource(c.init[s])
                   ELSE createSignal(VUndef)],
               [g \in DOMAIN c.ev |-> NewGuard], <<>>, {}, NoErr, <<>>)
           EXCEPT !.heap = c.heap,
                  !.pulses = [p \in PulsePaths(c) |->
                                 NewPulse(IF p = "state" THEN 1 ELSE 0)]],
        c.order)

(***************************************************************************)
(* The state machine                                                       *)
(***************************************************************************)
Op(name, u, v, k) == [name |-> name, u |-> u, v |-> v, k |-> k]

\* the world a handler starts from: no exception, an empty log
W0 ==
    [World(cfg, sources, guards, guardStack, inflight, NoErr, <<>>)
       EXCEPT !.batchQueue = batchQueue, !.batchDepth = batchDepth,
              !.heap = heap, !.pulses = pulses]

Becomes0(w) ==
    /\ sources' = w.sources
    /\ guards' = w.guards
    /\ guardStack' = w.guardStack
    /\ inflight' = w.inflight
    /\ exc' = w.exc
    /\ trace' = w.trace
    /\ batchQueue' = w.batchQueue
    /\ batchDepth' = w.batchDepth
    /\ heap' = w.heap
    /\ pulses' = w.pulses
    /\ registry' = registry
    /\ cfg' = cfg

\* a handler of the reactive core: it leaves the effect alone (effect()
\* registers its run function nowhere)
Becomes(w) == Becomes0(w) /\ fx' = fx

Init ==
    \E c \in Programs :
        LET w == Construct(c) IN
        /\ cfg = c
        /\ sources = w.sources
        /\ guards = w.guards
        /\ guardStack = w.guardStack
        /\ inflight = w.inflight
        /\ exc = w.exc
        /\ trace = <<>>
        /\ batchQueue = w.batchQueue
        /\ batchDepth = w.batchDepth
        /\ heap = w.heap
        /\ pulses = w.pulses
        /\ registry = NewRegistry
        /\ fx = NoEffect
        /\ op = Op("init", None, VUndef, 0)

Sources == DOMAIN sources

Guards == DOMAIN guards

Budget == \A g \in Guards : guards[g].evaluationId < MaxId

\* s.set(v)  (k = 1 when the stored value is replaced)
Set(s, v) ==
    LET w == sourceSet(W0, s, v) IN
    /\ Budget
    /\ s \in (DOMAIN cfg.init) \ cfg.signals
    /\ Becomes(w)
    /\ op' = Op("set", s, v, IF w.sources[s].value # sources[s].value THEN 1 ELSE 0)

\* a promise settles: its continuation runs (k = 1 when the run is stale)
Settle(p) ==
    /\ Becomes(settle(W0, p))
    /\ op' = Op("settle", p.g, p.out.v,
                IF p.id = guards[p.g].evaluationId THEN 0 ELSE 1)

\* the states a hydration snapshot {status, value, reason} carries
Snapshots ==
    { [status |-> "ok", value |-> VTrue, reason |-> NoReason, lastReason |-> NoReason],
      [status |-> "fail", value |-> VUndef,
       reason |-> [Reason("ERROR", "server", "") EXCEPT !.ts = FALSE],
       lastReason |-> NoReason] }

\* g._hydrate(newState), for the guards the snapshot names
Hydrate(g, st) ==
    /\ Budget
    /\ g \in cfg.named \cap cfg.snapshot
    /\ Becomes(hydrate(W0, g, st))
    /\ op' = Op("hydrate", g, st.value, 0)

\* g._evaluate()
Reevaluate(g) ==
    /\ Budget
    /\ g \in cfg.manual
    /\ Becomes(evaluate(W0, g))
    /\ op' = Op("evaluate", g, VUndef, 0)

\* sig.set(v), inside or outside batch()  (k = 1 when the value is replaced)
SignalSet(s, v) ==
    /\ Budget
    /\ s \in cfg.signals
    /\ Becomes(signalSet(W0, s, v))
    /\ op' = Op("sigset", s, v, IF sources[s].value # v THEN 1 ELSE 0)

\* batch(fn) is entered: fn starts running  (k = the depth reached)
BatchEnter ==
    /\ cfg.signals # {}
    /\ batchDepth < MaxDepth
    /\ Becomes(batchEnter(W0))
    /\ op' = Op("batch", None, VUndef, batchDepth + 1)

\* the fn of the innermost batch() returns  (k = the depth left)
BatchExit ==
    /\ Budget
    /\ batchDepth > 0
    /\ Becomes(batchExit(W0))
    /\ op' = Op("exit", None, VUndef, batchDepth)

\* the name a chain is logged under
RECURSIVE ChainName(_)
ChainName(props) ==
    IF Len(props) = 1 THEN props[1]
    ELSE props[1] \o "." \o ChainName(Tail(props))

\* the values the run assigns to a chain: the plain objects 2 and 4, or a
\* number
ChainValues(c) == IF c.objects THEN {Ref(2), Ref(4)} ELSE {Num(k) : k \in 0..2}

\* state.k1...kn = v  (k = 1 when the stored value is replaced)
Assign(c, v) ==
    LET w == assign(W0, "state", c.props, v) IN
    /\ Budget
    /\ Becomes(w)
    /\ op' = Op("assign", ChainName(c.props), v, IF w.heap # heap THEN 1 ELSE 0)

\* const v = state.k1...kn, outside any guard
Read(c) ==
    LET r == getChain(W0, "state", c.props) IN
    /\ Becomes(r.w)
    /\ op' = Op("read", ChainName(c.props), r.v, 0)

\* the variables of the reactive core
core == <<cfg, sources, guards, guardStack, inflight, exc, trace,
          batchQueue, batchDepth, heap, pulses>>

\* PulseRegistry.register(u)  (k = 1 when the identity was registered before)
Register(u) ==
    /\ cfg.registry # "none"
    /\ registry.currentGeneration < MaxGen
    /\ registry' = IF cfg.registry = "proxy" THEN registerProxy(registry, u)
                   ELSE registerGeneration(registry, u)
    /\ op' = Op("register", u, VUndef,
                IF UnitName(u) \in registry.registered THEN 1 ELSE 0)
    /\ UNCHANGED <<core, fx>>

\* the timer set by scheduleCleanup fires
CleanupTimer ==
    /\ registry.cleanupScheduled
    /\ registry' = cleanupOldGenerations(registry)
    /\ op' = Op("cleanup", None, VUndef, 0)
    /\ UNCHANGED <<core, fx>>

\* PulseRegistry.reset()
Reset ==
    /\ cfg.registry # "none"
    /\ registry.registered # {}
    /\ registry' = resetRegistry(registry)
    /\ op' = Op("reset", None, VUndef, 0)
    /\ UNCHANGED <<core, fx>>

\* the reads fn makes: outside any guard they register nobody
RECURSIVE ReadAll(_, _)
ReadAll(w, ss) ==
    IF ss = <<>> THEN w ELSE ReadAll(SourceTrack(w, Head(ss)), Tail(ss))

\* const stop = effect(fn)
Effect ==
    /\ cfg.effect # <<>>
    /\ ~fx.created
    /\ fx' = effect(fx)
    /\ Becomes0(ReadAll(W0, cfg.effect))
    /\ op' = Op("effect", None, VUndef, 0)

\* stop()  (k = 1 on the first call)
Dispose ==
    /\ fx.created
    /\ fx.cleanups < MaxDispose
    /\ fx' = dispose(fx)
    /\ op' = Op("dispose", None, VUndef, IF fx.disposed THEN 0 ELSE 1)
    /\ UNCHANGED <<core, registry>>

Next ==
    \/ Effect
    \/ Dispose
    \/ \E u \in Units : Register(u)
    \/ CleanupTimer
    \/ Reset
    \/ \E c \in cfg.chains : \E v \in ChainValues(c) : Assign(c, v)
    \/ \E c \in cfg.chains : Read(c)
    \/ \E s \in Sources, k \in 0..MaxVal : Set(s, Num(k))
    \/ \E p \in inflight : Settle(p)
    \/ \E g \in Guards, st \in Snapshots : Hydrate(g, st)
    \/ \E g \in Guards : Reevaluate(g)
    \/ \E s \in Sources, k \in 0..MaxVal : SignalSet(s, Num(k))
    \/ BatchEnter
    \/ BatchExit

Spec == Init /\ [][Next]_vars

(***************************************************************************)
(* Properties                                                              *)
(***************************************************************************)
AsyncGuards == {g \in Guards : cfg.ev[g].async}

SyncGuards == {g \in Guards : ~cfg.ev[g].async}

\* the outcome the evaluator of g yields on the current values
Yields(g) == RunEvaluator(W0, g).out

\* the status a synchronous outcome stands for
StatusOf(out) ==
    IF out.t = "throw" \/ out.v = VFalse THEN "fail"
    ELSE IF out.v = VUndef THEN "pending"
    ELSE "ok"

\* status and value of g are what its evaluator yields on the current values
Consistent(g) ==
    /\ guards[g].status = StatusOf(Yields(g))
    /\ GuardValue(W0, g) = IF StatusOf(Yields(g)) = "ok" THEN Yields(g).v ELSE VUndef

\* C1: for an async Guard reading a Source, whatever the order in which the
\* in-flight promises settle: a state committed by a run is the outcome of the
\* most recently started run (never of a superseded one), and once every
\* promise has settled the Guard shows the outcome of the last run, which read
\* the current value of the Source.
C1_LatestRunWins ==
    \A g \in AsyncGuards :
        /\ (guards[g].status # "pending" /\ guards[g].commitRun # 0)
              => /\ guards[g].commitRun = guards[g].execs
                 /\ Consistent(g)
        /\ (inflight = {} /\ guards[g].lastOut = "promise")
              => Consistent(g)

\* C1 witness: three runs were started (id = 1, 2, 3), the last thing that
\* happened is a superseded run settling after the last run had committed
C1_Witness ==
    /\ cfg.name = "race"
    /\ guards["slow"].execs = 3
    /\ sources["id"].value = Num(3)
    /\ inflight = {}
    /\ op.name = "settle" /\ op.k = 1
    /\ guards["slow"].status = "ok" /\ guards["slow"].value = Num(3)

\* what the latest completed run of g read
Reads(g) == Range(guards[g].lastDeps)

\* the units reached from a set of units by following "is read by", n times
RECURSIVE ReadersOf(_, _)
ReadersOf(us, n) ==
    IF n = 0 THEN us
    ELSE ReadersOf(us \cup {g \in Guards : Reads(g) \cap us # {}}, n - 1)

\* the Guards that depend on unit u, directly or through other Guards
TransDependents(u) == ReadersOf({u}, Cardinality(Guards)) \ {u}

\* the handler that ran last invoked the evaluator of g
Evaluated(g) == \E i \in 1..Len(trace) : trace[i].e = "eval" /\ trace[i].u = g

\* the guards a guard's evaluator may read, n steps deep
RECURSIVE MayReach(_, _)
MayReach(us, n) ==
    IF n = 0 THEN us
    ELSE MayReach(us \cup UNION {Range(cfg.ev[g].deps) \cap Guards : g \in us \cap Guards}, n - 1)

\* no guard may read itself through other guards, and no evaluator is async
AcyclicSync ==
    /\ AsyncGuards = {}
    /\ \A g \in Guards :
          g \notin MayReach(Range(cfg.ev[g].deps) \cap Guards, Cardinality(Guards))

\* the run makes set calls only
SetsOnly == cfg.snapshot = {} /\ cfg.manual = {}

ThrowsContained == \A g \in Guards : ~Has(cfg.ev[g].codes, "null")

Reentered(tr) == \E i \in 1..Len(tr) : tr[i].e = "eval" /\ tr[i].v = VTrue

C4_SyncOutcome ==
    \A g \in SyncGuards :
        /\ guards[g].lastOut = "false" =>
              /\ GuardFails(W0, g) /\ ~GuardPending(W0, g)
              /\ ReasonText(GuardReason(W0, g), "") =
                    (IF g \in cfg.named THEN g \o " failed" ELSE "condition failed")
        /\ guards[g].lastOut = "undef" =>
              GuardPending(W0, g) /\ ~GuardFails(W0, g)
        /\ guards[g].lastOut = "value" =>
              GuardOk(W0, g) /\ GuardValue(W0, g) = guards[g].lastRet

\* C4 witness: after a set, G's evaluator returned false and H's undefined
C4_Witness ==
    /\ cfg.name = "tri" /\ op.name = "set" /\ op.k = 1
    /\ guards["G"].lastOut = "false" /\ guards["G"].status = "fail"
    /\ guards["G"].reason.message = "G failed"
    /\ guards["H"].lastOut = "undef" /\ guards["H"].status = "pending"

\* C5 (as claimed): in every state of every Guard, value is defined only in
\* status ok and reason is defined only in status fail.
C5_FieldsMatchStatus ==
    \A g \in Guards :
        /\ guards[g].value # VUndef => guards[g].status = "ok"
        /\ guards[g].reason # NoReason => guards[g].status = "fail"

\* C6 (as claimed): after set(v) the Source reads v.
C6_RoundTrip == op.name = "set" => SourceValue(W0, op.u) = op.v

\* C6 (amended): after set(v) the Source reads v, unless its equality
\* function reports v equal to the value it held, and then it still reads
\* that value; with the default equality it reads v.
C6_SetThenRead ==
    [][ op'.name = "set" =>
          /\ sources'[op'.u].value =
                (IF Equals(cfg.eq[op'.u], sources[op'.u].value, op'.v)
                   THEN sources[op'.u].value ELSE op'.v)
          /\ cfg.eq[op'.u] = "strict" => sources'[op'.u].value = op'.v ]_vars

\* C6 witness: a set on the Source with the custom equality that stored its
\* argument, replacing a different value
C6_Witness ==
    /\ op.name = "set" /\ cfg.eq[op.u] = "custom" /\ op.k = 1
    /\ sources[op.u].value = op.v
    /\ guards["V"].value = op.v

\* C7: with the default equality, set(currentValue) calls no subscriber,
\* re-evaluates no Guard, and leaves every Source's value and dependent set
\* (and every Guard) as they were.
C7_SetSameIsNoOp ==
    [][ ( /\ op'.name = "set"
          /\ cfg.eq[op'.u] = "strict"
          /\ op'.v = sources[op'.u].value )
        => ( /\ sources' = sources
             /\ guards' = guards
             /\ inflight' = inflight
             /\ trace' = <<>>
             /\ exc' = NoErr ) ]_vars

\* C7 witness: set(currentValue) returned on a Source that has a manual
\* subscriber and a dependent Guard
C7_Witness ==
    /\ op.name = "set" /\ op.k = 0
    /\ cfg.eq[op.u] = "strict"
    /\ op.v = sources[op.u].value
    /\ op.u \in cfg.subs
    /\ sources[op.u].dependents # <<>>
    /\ trace = <<>>

\* the evaluator of g reads a Source first, whatever it does next
ReadsSourceFirst(g) == cfg.ev[g].kind = "table" /\ IsSource(W0, cfg.ev[g].deps[1])

\* explain().dependencies of g has an entry for the Source s
Lists(g, s) ==
    \E i \in 1..Len(explain(W0, g).dependencies) :
        /\ explain(W0, g).dependencies[i].name = s
        /\ explain(W0, g).dependencies[i].type = "source"

\* C8: when the latest run of a Guard read a named Source and then threw,
\* explain().dependencies has an entry for that Source.
C8_DepsSurviveFailure ==
    \A g \in SyncGuards :
        ( /\ ReadsSourceFirst(g)
          /\ cfg.ev[g].deps[1] \in cfg.named
          /\ guards[g].lastOut = "throw" )
        => GuardFails(W0, g) /\ Lists(g, cfg.ev[g].deps[1])

\* C8 witness: a set made G's evaluator throw after it read S, and explain()
\* lists S
C8_Witness ==
    /\ cfg.name = "tri" /\ op.name = "set" /\ op.k = 1
    /\ guards["G"].lastOut = "throw" /\ guards["G"].status = "fail"
    /\ Evaluated("G")
    /\ Lists("G", "S")

\* the guards built by guard.all
AllGuards == {g \in Guards : cfg.ev[g].kind = "all"}

\* C9: a guard.all composite is ok exactly when every member is ok.
C9_AllOkIffMembersOk ==
    \A g \in AllGuards :
        GuardOk(W0, g) <=> \A i \in 1..Len(cfg.ev[g].deps) : GuardOk(W0, cfg.ev[g].deps[i])

\* C9 witness: a set turned the second member from ok to not ok while the
\* first stayed ok, and the composite was re-run and is not ok
C9_Witness ==
    /\ cfg.name = "all" /\ op.name = "set" /\ op.u = "b" /\ op.k = 1
    /\ GuardOk(W0, "gA") /\ ~GuardOk(W0, "gB")
    /\ Evaluated("all") /\ GuardFails(W0, "all")

\* C10 (as claimed): whenever a guard.all composite is in fail, its reason()
\* reads as the current reason() of its first member that is not ok.
C10_FirstFailureReason ==
    \A g \in AllGuards :
        GuardFails(W0, g) =>
            LET ff == FirstFail(W0, cfg.ev[g].deps) IN
            /\ ff # None
            /\ ReasonText(GuardReason(W0, g), "condition failed")
                 = ReasonText(GuardReason(W0, ff), "condition failed")

\* the guards built by guard.any
AnyGuards == {g \in Guards : cfg.ev[g].kind = "any"}

\* the text guardAny takes from each member now, in iteration order
MemberMessages(g) ==
    [i \in 1..Len(cfg.ev[g].deps) |->
        ReasonText(GuardReason(W0, cfg.ev[g].deps[i]), "failed")]

\* a guard.any composite is ok exactly when some member is ok
AnyStatusMatches(g) ==
    GuardOk(W0, g) <=> \E i \in 1..Len(cfg.ev[g].deps) : GuardOk(W0, cfg.ev[g].deps[i])

\* C11 (as claimed): a guard.any composite is ok exactly when some member is
\* ok, and when no member is ok it is in fail and its reason message is the
\* members' current failure messages, in iteration order, joined with ' and '.
C11_AnyOkIffSomeOk ==
    \A g \in AnyGuards :
        /\ AnyStatusMatches(g)
        /\ (\A i \in 1..Len(cfg.ev[g].deps) : ~GuardOk(W0, cfg.ev[g].deps[i]))
              => /\ GuardFails(W0, g)
                 /\ ReasonText(GuardReason(W0, g), "") = JoinAnd(MemberMessages(g))

\* the guards built by guard.not, over a Guard or Source (kind "not") or over
\* a plain function (kind "notfn")
NotGuards == {g \in Guards : cfg.ev[g].kind \in {"not", "notfn"}}

\* the target of g currently evaluates falsy
TargetFalsy(g) ==
    LET target == cfg.ev[g].deps[1] IN
    IF cfg.ev[g].kind = "not" /\ ~IsSource(W0, target)
      THEN ~(guards[target].status = "ok")
    ELSE IF IsSource(W0, target) THEN ~Truthy(sources[target].value)
    ELSE ~Truthy(IF guards[target].status = "ok" THEN guards[target].value ELSE VUndef)

\* C12: a guard.not composite is ok exactly when its target currently
\* evaluates falsy (a Guard target: target.ok() is false; any other callable:
\* its result is falsy), and is in fail otherwise.
C12_NotOkIffTargetFalsy ==
    \A g \in NotGuards :
        /\ GuardOk(W0, g) <=> TargetFalsy(g)
        /\ ~TargetFalsy(g) => GuardFails(W0, g)

\* C12 witness: a set made gA ok and the value of a falsy; both negations were
\* re-run, the one over gA is in fail and the one over () => a() is ok
C12_Witness ==
    /\ cfg.name = "compose" /\ op.name = "set" /\ op.u = "a" /\ op.k = 1
    /\ Evaluated("notG") /\ Evaluated("notA")
    /\ GuardOk(W0, "gA") /\ GuardFails(W0, "notG")
    /\ ~Truthy(sources["a"].value) /\ GuardOk(W0, "notA")

\* the guards built by compute(name, [source, 1, source], processor)
ComputeGuards == {g \in Guards : cfg.ev[g].kind = "compute"}

\* C13: the value of a compute Guard is its processor applied positionally to
\* the current values of its dependencies, callables called and literals
\* passed as they are.
C13_ComputeIsProcessor ==
    \A g \in ComputeGuards :
        LET d == cfg.ev[g].deps IN
        /\ GuardOk(W0, g)
        /\ GuardValue(W0, g) =
              Num(4 * sources[d[1]].value.n + 2 * 1 + sources[d[3]].value.n)

\* C13 witness: after a set on the last dependency the compute Guard was re-run
\* and holds a value that the reversed argument order would not give
C13_Witness ==
    /\ cfg.name = "compute" /\ op.name = "set" /\ op.u = "y" /\ op.k = 1
    /\ Evaluated("sum")
    /\ sources["x"].value # sources["y"].value
    /\ guards["sum"].value = Num(4 * sources["x"].value.n + 2 + sources["y"].value.n)

\* the guards a hydration snapshot can be applied to
Hydratable == cfg.named \cap cfg.snapshot \cap Guards

\* C14 (as claimed): a client Guard with an async evaluator that was hydrated
\* from an ok snapshot is ok with the snapshot's value, and its evaluator has
\* not been invoked since its construction.
C14_HydratedWithoutRun ==
    \A g \in AsyncGuards :
        (op.name = "hydrate" /\ op.u = g /\ op.v = VTrue)
            => /\ GuardOk(W0, g)
               /\ GuardValue(W0, g) = VTrue
               /\ guards[g].execs = 0

\* status, value and reason of a Guard
Shown(gr) == [status |-> gr.status, value |-> gr.value, reason |-> gr.reason]

\* C15: a run that was in flight when its Guard was hydrated changes nothing
\* of the Guard's state when it settles, by resolving or by rejecting, as
\* long as no new evaluation of the Guard has started.
C15_HydrationInvalidatesRuns ==
    [][ (op'.name = "settle" /\ guards[op'.u].lastOut = "hydrated")
        => /\ StateOf(guards'[op'.u]) = StateOf(guards[op'.u])
           /\ guards'[op'.u].lastOut = "hydrated"
           /\ trace' = <<>> ]_vars

\* C15 witness: the rejection of a run started before the hydration has been
\* delivered and the Guard still shows the hydrated ok state
C15_Witness ==
    /\ cfg.name = "retry"
    /\ op.name = "settle" /\ op.k = 1 /\ op.v = VUndef
    /\ guards[op.u].lastOut = "hydrated"
    /\ guards[op.u].status = "ok" /\ guards[op.u].value = VTrue

C17_LastReasonPersists ==
    [][ \A g \in Guards :
          (guards[g].lastReason # NoReason /\ guards'[g].status # "fail")
              => guards'[g].lastReason = guards[g].lastReason ]_vars

\* this step starts a run of the async Guard g, which was in fail
StartsRunFromFail(g) ==
    /\ cfg.ev[g].async
    /\ guards[g].status = "fail"
    /\ guards'[g].execs = guards[g].execs + 1

\* this step delivers the rejection of run p, the latest run of its Guard
CommitsRejection(p) ==
    /\ op'.name = "settle" /\ op'.k = 0
    /\ p \in inflight /\ p \notin inflight'
    /\ p.out.t = "throw"

\* what the rejection of p commits: the new reason, and as lastReason the
\* reason the state carried, or the new reason when it carried none
RejectionCommitted(p) ==
    /\ guards'[p.g].status = "fail"
    /\ guards'[p.g].reason = NormalizeRejection(p.out.err)
    /\ guards'[p.g].lastReason =
          (IF guards[p.g].reason # NoReason THEN guards[p.g].reason
           ELSE NormalizeRejection(p.out.err))

StillSubscribed(g) ==
    \A i \in 1..Len(guards[g].currentDeps) :
        LET d == guards[g].currentDeps[i] IN
        IF IsSource(W0, d) THEN Has(sources[d].dependents, g)
        ELSE Has(guards[d].dependents, g)

\* the failure of a run has been taken in: fail, with a reason, and still
\* listening to what the run read
FailureContained(g) ==
    /\ GuardFails(W0, g)
    /\ GuardReason(W0, g) # NoReason
    /\ StillSubscribed(g)

\* C19 (as claimed): no handler ends with an exception; a Guard whose latest
\* run threw, or whose latest run's rejection has been delivered, is in fail
\* with a reason and is still registered with the dependencies it read.
C19_ThrowsAreContained ==
    /\ exc = NoErr
    /\ \A g \in SyncGuards : guards[g].lastOut = "throw" => FailureContained(g)
    /\ \A g \in AsyncGuards :
          ( /\ guards[g].lastOut = "promise"
            /\ guards[g].commitRun = guards[g].execs
            /\ Yields(g).t = "throw" )
          => FailureContained(g)

\* the reason r keeps every field the thrown value err carries, and has the
\* default code when err carries neither code nor meta
PreservesFields(r, err) ==
    /\ r.message = err.message
    /\ err.code # "" => r.code = err.code
    /\ err.meta # "" => r.meta = err.meta
    /\ (err.code = "" /\ err.meta = "") => r.code = "ERROR"

\* C20 (as claimed): the fail reason of a Guard whose latest run threw a value
\* other than null or undefined keeps the code, the message and the meta the
\* thrown value carries, and has the default code and the thrown message when
\* it carries none.
C20_ReasonKeepsThrownFields ==
    \A g \in SyncGuards :
        ( /\ ReadsSourceFirst(g)
          /\ guards[g].lastOut = "throw"
          /\ Yields(g).err.kind # "nullish" )
            => /\ GuardFails(W0, g)
               /\ PreservesFields(guards[g].reason, Yields(g).err)

\* the message runInContext would give if it named the Guard
NamesGuard(message, g) ==
    message = "Cyclic guard dependency detected: " \o GuardName(cfg, g)

\* C28: a Guard created with a name that was refused re-entry while it was
\* already on the evaluation stack is in fail with a reason whose message
\* names it (contains its name).
C28_CycleMessageNamesGuard ==
    \A g \in Guards :
        (GuardName(cfg, g) # "" /\ guards[g].lastOut = "cyclic")
            => /\ guards[g].status = "fail"
               /\ NamesGuard(guards[g].reason.message, g)

\* evaluate() calls a step made on g: what the run-id advanced by, less the
\* one a _hydrate of g adds
Started(g) ==
    guards'[g].evaluationId - guards[g].evaluationId
        - (IF op'.name = "hydrate" /\ op'.u = g THEN 1 ELSE 0)

\* evaluator invocations of g a step made
Invoked(g) == guards'[g].execs - guards[g].execs

\* g cannot be reached from its own evaluator (no evaluate() of g is refused
\* by the cycle check of runInContext)
NeverReentered(g) ==
    g \notin MayReach(Range(cfg.ev[g].deps) \cap Guards, Cardinality(Guards))

\* the runs of g whose promise has not settled
InFlight(g) == {p \in inflight : p.g = g}

\* C21: every evaluation that is started invokes the evaluator exactly once,
\* superseded runs included: a handler advances the evaluator-invocation
\* count of a Guard by the number of evaluations it started on it, and an
\* async Guard with three evaluations started and none settled (construction
\* and two value-changing sets) has had its evaluator invoked 3 times.
C21_EveryRunInvokes ==
    /\ [][\A g \in Guards : NeverReentered(g) => Invoked(g) = Started(g)]_vars
    /\ [](\A g \in AsyncGuards :
            (Cardinality(InFlight(g)) = 3 /\ guards[g].evaluationId = 3)
                => guards[g].execs = 3)

\* C21 witness: after construction and two value-changing sets nothing has
\* settled; three runs are in flight and the first two are superseded
C21_Witness ==
    /\ cfg.name = "race"
    /\ op.name = "set" /\ op.k = 1
    /\ sources["id"].value = Num(3)
    /\ Cardinality(InFlight("slow")) = 3
    /\ guards["slow"].evaluationId = 3
    /\ guards["slow"].execs = 3

\* C30: when a run whose captured run-id is no longer the Guard's run-id
\* resolves or rejects, nothing changes and nobody is notified: every Guard
\* keeps its state, its last-completed dependency set and its dependents, no
\* notify() and no subscriber call is made, and nothing is thrown.
C30_StaleSettleIsNoOp ==
    [][ (op'.name = "settle" /\ op'.k = 1)
          => /\ guards' = guards
             /\ sources' = sources
             /\ trace' = <<>>
             /\ exc' = NoErr ]_vars

\* C30 witness: a superseded run of the retrying job has just rejected
C30_Witness ==
    /\ cfg.name = "retry"
    /\ op.name = "settle" /\ op.k = 1 /\ op.v = VUndef
    /\ guards["job"].evaluationId > 1
    /\ trace = <<>>

\* the handler that ran last called the subscriber of s with value v
Told(tr, s, v) == \E i \in 1..Len(tr) : tr[i].e = "sub" /\ tr[i].u = s /\ tr[i].v = v

\* the handler that ran last invoked the evaluator of g
Ran(tr, g) == \E i \in 1..Len(tr) : tr[i].e = "eval" /\ tr[i].u = g

\* C22: while a batch() is open (nested ones included) a value-changing
\* Signal.set calls no subscriber and re-evaluates no dependent, it only
\* queues the Signal's notification; leaving an inner batch() delivers
\* nothing; leaving the outermost batch() delivers every queued notification:
\* each queued Signal's subscriber is called with its current value and each
\* of its dependents is re-evaluated.
C22_BatchDefers ==
    [][ /\ (batchDepth > 0 /\ op'.name = "sigset" /\ op'.k = 1)
            => /\ trace' = <<>>
               /\ guards' = guards
               /\ Has(batchQueue', op'.u)
               /\ batchDepth' = batchDepth
        /\ (batchDepth > 1 /\ op'.name = "exit")
            => /\ trace' = <<>>
               /\ guards' = guards
               /\ batchQueue' = batchQueue
        /\ (batchDepth = 1 /\ op'.name = "exit")
            => /\ batchQueue' = Null
               /\ \A s \in Range(batchQueue) :
                     /\ s \in cfg.subs => Told(trace', s, sources[s].value)
                     /\ \A g \in Range(sources[s].dependents) : Ran(trace', g) ]_vars

\* C22 witness: the outermost batch() has just been left and delivered the
\* notifications of both Signals, set inside it
C22_Witness ==
    /\ cfg.name = "batch"
    /\ op.name = "exit" /\ batchDepth = 0 /\ batchQueue = Null
    /\ Told(trace, "a", sources["a"].value)
    /\ Told(trace, "b", sources["b"].value)
    /\ Ran(trace, "G") /\ Ran(trace, "H")

\* C23: when the outermost batch() is left with the notifications of two or
\* more Signals queued that the same Guard read, that Guard is re-evaluated
\* exactly once.
C23_OncePerDependent ==
    [][ (batchDepth = 1 /\ op'.name = "exit")
          => \A g \in Guards :
                (\E s1, s2 \in Range(batchQueue) :
                     /\ s1 # s2
                     /\ Has(sources[s1].dependents, g)
                     /\ Has(sources[s2].dependents, g))
                   => Invoked(g) = 1 ]_vars

\* the chain of the run logged under a name
ChainOf(name) == CHOOSE c \in cfg.chains : ChainName(c.props) = name

\* obj.k1...kn read on the plain objects, starting at object k
RECURSIVE RawPath(_, _)
RawPath(k, props) ==
    IF Len(props) = 1 THEN heap[k][props[1]]
    ELSE RawPath(heap[k][props[1]].n, Tail(props))

\* C24: assigning a new value to a nested property of a pulse object
\* (state.user.profile.name = v) calls the subscriber registered with
\* $subscribe on the top-level object.
C24_DeepAssignTellsTop ==
    [][ (op'.name = "assign" /\ op'.k = 1 /\ Len(ChainOf(op'.u).props) > 1)
          => Told(trace', "state", VUndef) ]_vars

\* C25: a read through a property that holds a nested object goes to the
\* object the property holds now: after state.user was read, it is wrapped by
\* a proxy over the object state.user holds, and a read of
\* state.user.profile.name returns the name of that object, also when
\* state.user was assigned a different object after its wrapper was cached.
C25_ReplacedObjectIsRewrapped ==
    /\ (op.name = "read" /\ op.u = "user")
          => pulses["state.user"].target = heap[1]["user"].n
    /\ (op.name = "read" /\ Len(ChainOf(op.u).props) > 1)
          => op.v = RawPath(1, ChainOf(op.u).props)

\* C26: a Guard whose evaluator read only one property of a pulse object is
\* not re-evaluated when a different property of the object is assigned.
C26_OtherPropertyLeavesGuard ==
    [][ (op'.name = "assign" /\ op'.k = 1 /\ Len(ChainOf(op'.u).props) = 1)
          => \A g \in Guards :
                ( /\ cfg.ev[g].kind = "path"
                  /\ Len(cfg.ev[g].deps) = 2
                  /\ cfg.ev[g].deps[2] # op'.u )
                    => ~Ran(trace', g) ]_vars

\* C27: after any sequence of register calls since the last reset, the
\* Registry holds an entry for exactly the identities that were registered;
\* the entry of an identity is the unit registered last under it (replaced
\* in place, never removed later), and the reference the first registration
\* returned stands for that unit.
C27_OneEntryPerIdentity ==
    cfg.registry # "none" =>
        \A n \in Names :
            /\ n \notin registry.registered => Entry(cfg, registry, n) = None
            /\ n \in registry.registered
                  => /\ Entry(cfg, registry, n) = registry.latest[n]
                     /\ Deref(registry, registry.first[n]) = registry.latest[n]

\* C29: effect(fn) runs fn once immediately; while the effect is not
\* disposed, each value-changing set (outside batch) of a Signal that fn
\* read runs fn once more; after dispose fn is never run again, and dispose
\* invokes the cleanup the last run of fn returned.
C29_EffectReruns ==
    [][ /\ op'.name = "effect" => fx'.runs = 1
        /\ ( /\ op'.name = "sigset" /\ op'.k = 1 /\ batchDepth = 0
              /\ fx.created /\ ~fx.disposed
              /\ Has(cfg.effect, op'.u) )
             => fx'.runs = fx.runs + 1
        /\ fx.disposed => fx'.runs = fx.runs
        /\ (op'.name = "dispose" /\ op'.k = 1)
             => fx'.disposed /\ fx'.cleanups = fx.cleanups + 1 ]_vars

\* call number i of the last handler started a run of the async Guard g
StartsAsyncRun(i, g) ==
    trace[i].e = "eval" /\ trace[i].u = g /\ g \in AsyncGuards

\* C31: a run of an async Guard that starts while the Guard is not pending
\* sets the status to pending and at once notifies the dependents (every
\* Guard registered as a dependent is re-evaluated) and then the subscribers,
\* all inside the handler that started the run, whose promise is still
\* unsettled when the handler returns; a run that starts while the Guard is
\* pending is followed by no notification of that Guard.
C31_PendingFlipNotifies ==
    /\ [](\A g \in Guards : \A i \in 1..Len(trace) :
            StartsAsyncRun(i, g) =>
                IF trace[i].st # "pending"
                  THEN /\ i < Len(trace)
                       /\ trace[i + 1] = Ev("notify", g, VUndef, "pending")
                       /\ g \in cfg.subs =>
                              \E j \in (i + 2)..Len(trace) :
                                  /\ trace[j].e = "gsub" /\ trace[j].u = g
                                  /\ trace[j].st = "pending"
                       /\ \E p \in inflight : p.g = g
                  ELSE \/ i = Len(trace)
                       \/ trace[i + 1].u # g
                       \/ trace[i + 1].e = "eval")
    /\ [][\A g \in AsyncGuards :
            ( /\ op'.name \in {"set", "evaluate"}
              /\ trace' # <<>> /\ trace'[1].u = g
              /\ guards[g].status # "pending" )
                => \A d \in Range(guards[g].dependents) : Evaluated(d)']_vars

\* C31 witness: a set started a run of data while it was ok; D, its
\* dependent, was re-evaluated and the subscriber called with pending, and
\* the promise of the run is still in flight
C31_Witness ==
    /\ cfg.name = "async"
    /\ op.name = "set" /\ op.k = 1
    /\ Len(trace) > 3
    /\ trace[1] = Ev("eval", "data", VFalse, "ok")
    /\ trace[2] = Ev("notify", "data", VUndef, "pending")
    /\ trace[3] = Ev("eval", "D", VFalse, "ok")
    /\ trace[Len(trace)].e = "gsub" /\ trace[Len(trace)].u = "data"
    /\ trace[Len(trace)].st = "pending"
    /\ guards["D"].status = "pending"
    /\ \E p \in inflight : p.g = "data" /\ p.id = guards["data"].evaluationId

\* the positions in the call log tr of the calls of kind e made on unit u
Calls(tr, e, u) == {i \in 1..Len(tr) : tr[i].e = e /\ tr[i].u = u}

\* the handler of this step ran the evaluator of g once, the run returned
\* synchronously, and nothing else wrote the state of g during the handler
RanOnceSync(g) ==
    /\ g \in SyncGuards
    /\ Cardinality(Calls(trace', "eval", g)) = 1
    /\ guards'[g].execs = guards[g].execs + 1
    /\ guards'[g].evaluationId = guards[g].evaluationId + 1
    /\ guards'[g].lastOut \in {"false", "undef", "value"}

\* C32: a run that returns synchronously and leaves status and value as
\* they were before it is followed by no notification of a dependent and no
\* subscriber call of its Guard; a run that changes status or value
\* notifies: every Guard registered as a dependent is re-evaluated after the
\* notification and the subscriber is called.
C32_NotifyOnlyOnChange ==
    [][\A g \in Guards :
          RanOnceSync(g) =>
              IF guards'[g].status = guards[g].status
                    /\ guards'[g].value = guards[g].value
                THEN /\ Calls(trace', "notify", g) = {}
                     /\ Calls(trace', "gsub", g) = {}
                ELSE /\ \E n \in Calls(trace', "notify", g) :
                            \A d \in Range(guards[g].dependents) :
                                \E i \in Calls(trace', "eval", d) : i > n
                     /\ g \in cfg.subs => Calls(trace', "gsub", g) # {}]_vars

\* C32 witness: a set in the diamond re-ran A, which stayed ok with value
\* true and told nobody, and B, whose value changed and whose dependent C
\* was re-evaluated
C32_Witness ==
    /\ cfg.name = "diamond"
    /\ op.name = "set" /\ op.k = 1
    /\ Calls(trace, "eval", "A") # {} /\ Calls(trace, "notify", "A") = {}
    /\ guards["A"].status = "ok" /\ guards["A"].lastRet = VTrue
    /\ Calls(trace, "notify", "B") # {} /\ Calls(trace, "eval", "C") # {}

\* the dependent set of a Source, a Guard or a pulse proxy
DependentsOf(w, u) ==
    IF u \in DOMAIN w.sources THEN w.sources[u].dependents
    ELSE IF u \in DOMAIN w.guards THEN w.guards[u].dependents
    ELSE w.pulses[u].dependents

\* the world once runInContext(g, fn) has pushed g and the evaluator of g
\* has made its reads, from the current state with the stack st
InsideRun(st, g) ==
    RunEvaluator(Push([W0 EXCEPT !.guardStack = st,
                                 !.guards[g].currentDeps = <<>>], g), g).w

\* in the world w, reached from the stack st, g is the current guard and
\* every unit the evaluator of g read has recorded g
IsCurrent(w, st, g) ==
    /\ getCurrentGuard(w) = g
    /\ w.guardStack = Append(st, g)
    /\ w.guards[g].currentDeps # <<>>
    /\ \A u \in Range(w.guards[g].currentDeps) : Has(DependentsOf(w, u), g)

\* C33: runInContext leaves the evaluation stack as it found it.  After
\* every handler the stack is empty again, whatever happened inside
\* (normal returns, throwing evaluators, refused re-entries, exceptions
\* that leave the handler); from every reachable state, an evaluation of
\* any Guard g started on the empty stack or below another Guard h returns
\* with the stack it was started on (for h = g that is the cyclic error
\* raised before pushing); and while the evaluator of g runs g is the
\* current guard: g is on top and every unit it reads records g.
C33_StackRestored ==
    /\ guardStack = <<>>
    /\ \A g \in Guards :
          /\ evaluate(W0, g).guardStack = <<>>
          /\ \A h \in Guards :
                evaluate([W0 EXCEPT !.guardStack = <<h>>], g).guardStack = <<h>>
          /\ \A st \in {<<>>} \cup {<<h>> : h \in Guards \ {g}} :
                IsCurrent(InsideRun(st, g), st, g)

\* C33 witness: the set that closed the cycle has returned: A ran with B
\* nested inside it, both were refused re-entry by the cyclic error, and
\* the stack is empty
C33_Witness ==
    /\ cfg.name = "cycle"
    /\ op.name = "set" /\ op.k = 1
    /\ Reentered(trace) = FALSE
    /\ guards["A"].lastOut = "cyclic" /\ guards["B"].lastOut = "cyclic"
    /\ Calls(trace, "eval", "A") # {} /\ Calls(trace, "eval", "B") # {}
    /\ guardStack = <<>>

\* C34: a value-changing Source.set calls the subscriber first, with the
\* new value, before any Guard is run; the dependent set it leaves behind
\* holds only Guards that were re-run by this set (the old registrations
\* were taken out before the first notify), and every Guard whose re-run
\* read the Source is in it (its registration was not lost).
C34_SubscribersThenFreshSet ==
    [][(op'.name = "set" /\ op'.k = 1) =>
          LET s == op'.u IN
          /\ s \in cfg.subs =>
                /\ trace' # <<>>
                /\ trace'[1] = Ev("sub", s, op'.v, "")
                /\ sources'[s].value = op'.v
                /\ Calls(trace', "sub", s) = {1}
          /\ \A g \in Range(sources'[s].dependents) :
                Calls(trace', "eval", g) # {}
          /\ \A g \in Range(sources[s].dependents) :
                exc' = NoErr => Calls(trace', "eval", g) # {}
          /\ \A g \in Guards :
                ( /\ Calls(trace', "eval", g) # {}
                  /\ Has(guards'[g].currentDeps, s) )
                    => Has(sources'[s].dependents, g)]_vars

\* C34 witness: count.set(v) called the subscriber with v, then re-ran
\* isEven, which is registered again
C34_Witness ==
    /\ cfg.name = "even"
    /\ op.name = "set" /\ op.k = 1
    /\ trace[1] = Ev("sub", "count", op.v, "")
    /\ trace[2].e = "eval" /\ trace[2].u = "isEven"
    /\ sources["count"].dependents = <<"isEven">>
    /\ Has(guards["isEven"].currentDeps, "count")

\* the evaluator of g reads Sources only (no Guard can re-run g on behalf
\* of a Source g did not read itself)
ReadsSourcesOnly(g) == Range(cfg.ev[g].deps) \cap Guards = {}

\* C35: stale registrations do not accumulate.  For a Source S and a Guard
\* G: (1) a change of S that re-runs G in a run that does not read S leaves
\* G out of the dependent set of S, so a stale registration is used up by
\* one change; (2) G enters the dependent set of S only in a step where a
\* run of G read S; (3) while G is not in the dependent set of S, a change
\* of S does not re-run G.  What a run read is the Guard's currentDeps; a
\* Guard whose latest evaluate() was a refused re-entry has that record
\* emptied and is left out.
C35_StaleUsedOnce ==
    [][\A s \in DOMAIN cfg.init : \A g \in Guards :
          /\ ( /\ op'.name = "set" /\ op'.u = s /\ op'.k = 1
               /\ Calls(trace', "eval", g) # {}
               /\ guards'[g].lastOut # "cyclic"
               /\ ~Has(guards'[g].currentDeps, s) )
                 => ~Has(sources'[s].dependents, g)
          /\ ( /\ ~Has(sources[s].dependents, g)
               /\ guards'[g].lastOut # "cyclic"
               /\ ~Has(guards'[g].currentDeps, s) )
                 => ~Has(sources'[s].dependents, g)
          /\ ( /\ op'.name = "set" /\ op'.u = s /\ op'.k = 1
               /\ ~Has(sources[s].dependents, g)
               /\ ReadsSourcesOnly(g) )
                 => Calls(trace', "eval", g) = {}]_vars

\* C35 witness: G ran three times (construction, the p.set(0) after which
\* it stopped reading q, and one stale re-run by a change of q); the
\* change of q that just returned did not re-run it
C35_Witness ==
    /\ cfg.name = "cond"
    /\ op.name = "set" /\ op.u = "q" /\ op.k = 1
    /\ trace = <<>>
    /\ sources["p"].value = Num(0)
    /\ guards["G"].execs = 3
    /\ guards["G"].lastDeps = <<"p">>
    /\ sources["q"].dependents = <<>>

\* what the evaluator of g reads on the current values, in order
ReadsNow(g) == InsideRun(<<>>, g).guards[g].currentDeps

\* C36: a Guard whose latest evaluate() was refused as a re-entry (it is
\* in fail with the cyclic-dependency reason) still has, in
\* explain().dependencies, one entry for each unit its evaluator read in
\* its last executed run (the values that run read are the current ones:
\* no Source has changed since without re-running the Guard).
C36_CycleKeepsDependencies ==
    \A g \in SyncGuards :
        ( /\ guards[g].lastOut = "cyclic"
          /\ guards[g].status = "fail"
          /\ guards[g].reason.message = CyclicMessage(cfg, g) )
        => Range(explain(W0, g).dependencies) =
               {DepEntry(W0, d) : d \in Range(ReadsNow(g))}

\* C37: propagation terminates.  With synchronous Guards only, a
\* Source.set never exhausts the call stack: the chain of nested
\* evaluate() calls it starts comes to an end by itself.
C37_PropagationTerminates ==
    (op.name = "set" /\ AsyncGuards = {}) => exc # RangeError

\* g is in status fail with the cyclic-dependency reason
CyclicFailed(g) ==
    guards[g].status = "fail" /\ guards[g].reason.message = CyclicMessage(cfg, g)

\* C38: in the cycle program (A reads B while toggle is on, B reads A),
\* once A and B have both failed with the cyclic-dependency reason, the set
\* that turns toggle off re-evaluates both Guards and leaves neither of
\* them in fail with the cyclic-dependency reason.
C38_CycleRecovers ==
    [][( /\ cfg.name = "cycle"
         /\ CyclicFailed("A") /\ CyclicFailed("B")
         /\ op'.name = "set" /\ op'.u = "toggle" /\ op'.k = 1
         /\ ~Truthy(op'.v) )
       => ( /\ Calls(trace', "eval", "A") # {}
            /\ Calls(trace', "eval", "B") # {}
            /\ ~CyclicFailed("A")'
            /\ ~CyclicFailed("B")' )]_vars

\* what the most recent evaluator run of g read
LatestReads(g) == Range(guards[g].currentDeps)

\* C39: in a program whose Guards cannot read themselves through each
\* other, between handlers (no evaluation in progress), every Guard is in
\* the dependent set of every Source and Guard that its most recent
\* evaluator run read.
C39_NoSubscriptionLost ==
    (\A g \in Guards :
        g \notin MayReach(Range(cfg.ev[g].deps) \cap Guards, Cardinality(Guards)))
      => \A g \in Guards : \A u \in LatestReads(g) :
            (u \in Sources \cup Guards) => Has(DependentsOf(W0, u), g)

\* C40: a value-changing assignment state.p = v invokes the evaluator of a
\* Guard () => state.p, whose latest run read the property, exactly once.
C40_OncePerWrite ==
    [][ (op'.name = "assign" /\ op'.k = 1 /\ Len(ChainOf(op'.u).props) = 1)
          => \A g \in Guards :
                ( /\ cfg.ev[g].kind = "path"
                  /\ cfg.ev[g].deps = <<"state", op'.u>>
                  /\ Has(guards[g].currentDeps, SignalOf("state", op'.u)) )
                    => Cardinality(Calls(trace', "eval", g)) = 1 ]_vars

====
